---------------------------- MODULE Spec2Model ----------------------------
(***************************************************************************)
(* A model of the kiro-go-proxy gateway: the request shaper                *)
(* (converter.BuildKiroPayload), the upstream event-stream parser          *)
(* (parser.AwsEventStreamParser), the streaming pipeline                   *)
(* (stream.ParseKiroStream / stream.StreamToOpenAI and the route handler), *)
(* the retrying HTTP executor (client.RequestWithRetry) and the token      *)
(* manager (auth.Manager).                                                 *)
(*                                                                         *)
(* Each subsystem has its own specification over the shared variables; the *)
(* variables of the other subsystems stay at their initial values.         *)
(***************************************************************************)
EXTENDS Integers, Sequences, FiniteSets, TLC

VARIABLES
    \* converter.BuildKiroPayload
    shInput,        \* the arguments of the BuildKiroPayload call
    messages,       \* the local list `messages` of BuildKiroPayload
    shStage,        \* the stage BuildKiroPayload is about to run
    payload         \* the returned payload; status "none" (not called), "nil" or "ok"

VARIABLES
    \* auth.Manager and its credential source
    m,              \* the Manager's fields
    store,          \* the credential source (KV row or JSON file)
    mu,             \* holder of Manager.mu, "free" when unlocked
    now,            \* the wall clock, in units of 60 s
    issued,         \* number of tokens the refresh endpoint has handed out
    extWrites,      \* writes to the KV row made by other processes
    acall,          \* per caller: the GetAccessToken / ForceRefresh call in progress
    arnRead         \* the last ProfileArn() call: who read, what, and the lock's holder

VARIABLES
    \* client.RequestWithRetry and the route handler that calls it
    hpc,            \* position of handleStreamingChatCompletion
    rpc,            \* position of RequestWithRetry
    attempt,        \* the loop variable `attempt`
    lastErr,        \* the local `lastErr`
    resp,           \* the response RequestWithRetry returned
    client,         \* what the handler has written to the client
    framesWritten,  \* SSE frames written by the handler's range loop
    \* what the upstream and the refresh endpoint have seen of this request
    reqCount,       \* upstream requests sent
    lastReq,        \* token of the last upstream request, and how GetAccessToken got it
    prevStatus,     \* status of the last upstream answer (0: none, or a transport error)
    forced,         \* the ForceRefresh call made since the last upstream answer
    allStatus,      \* every attempt so far ended in a retryable status
    \* parser
    wire,           \* bytes the upstream has written and the reader has not read
    psr,            \* the AwsEventStreamParser
    emitted,        \* the events the Feed calls returned, in order
    produced,       \* objects written by the upstream
    \* streaming pipeline
    cfg,            \* the configuration (FAKE_REASONING, its handling mode)
    body,           \* the response body: "open", or how it ended
    thk,            \* ParseKiroStream's thinking parser
    ppc,            \* where ParseKiroStream's goroutine is
    pending,        \* KiroEvents it has still to send
    eventsCh,       \* the events channel
    errsCh,         \* the errs channel
    outputCh,       \* StreamToOpenAI's output channel
    closed,         \* which of the channels are closed
    cons,           \* the consumer: StreamToOpenAI's goroutine or CollectStreamResult
    spc,            \* where the handler is
    frames,         \* what the handler has written to the client
    sent,           \* the KiroEvents sent on the events channel, in order
    readErr         \* the read that failed: "none", "first", "read"

VARIABLES
    \* parser.ThinkingParser driven directly: the parser, the last call and its result
    tk

VARIABLES
    \* handleStreamingMessages: its locals and the SSE events written so far
    an

VARIABLES
    \* one HTTP request through the router: its path and Authorization header, and the answer
    mw

VARIABLES
    \* NormalizeModelName applied to a name, and to its own result
    nm

VARIABLES
    \* the Resolver, its tables, and the result of its last call
    rv

VARIABLES
    \* ParseKiroStream's wait for the first chunk of a response
    ft

VARIABLES
    \* a streaming handler whose client may cancel
    cn

VARIABLES
    \* a parser given the events of one tool call
    tl

VARIABLES
    \* a list of tool calls and what DeduplicateToolCalls returned for it
    dd

VARIABLES
    \* a byte stream fed to a parser in chunks
    by

VARIABLES
    \* the producer goroutine, its channels and the loop that drains them
    dr

shVars == <<shInput, messages, shStage, payload>>

authVars == <<m, store, mu, now, issued, extWrites, acall>>

readVars == <<arnRead>>

parserVars == <<wire, psr, emitted, produced>>

streamVars == <<cfg, body, thk, ppc, pending, eventsCh, errsCh, outputCh, closed, cons,
                spc, frames, sent, readErr>>

retryVars == <<hpc, rpc, attempt, lastErr, resp, client, framesWritten,
               reqCount, lastReq, prevStatus, forced, allStatus>>

thinkVars == <<tk>>

anthVars == <<an>>

mwVars == <<mw>>

normVars == <<nm>>

resolverVars == <<rv>>

firstVars == <<ft>>

cancelVars == <<cn>>

toolVars == <<tl>>

dedupVars == <<dd>>

byteVars == <<by>>

drainVars == <<dr>>

\* What the actions of one subsystem leave alone
outsideShaper == <<authVars, readVars, retryVars, parserVars, streamVars, thinkVars, anthVars, mwVars, normVars, resolverVars, firstVars, cancelVars, toolVars, dedupVars, byteVars, drainVars>>

outsideRetry == <<shVars, readVars, parserVars, streamVars, thinkVars, anthVars, mwVars, normVars, resolverVars, firstVars, cancelVars, toolVars, dedupVars, byteVars, drainVars>>

outsideParser == <<shVars, authVars, readVars, retryVars, streamVars, thinkVars, anthVars, mwVars, normVars, resolverVars, firstVars, cancelVars, toolVars, dedupVars, byteVars, drainVars>>

outsideStream == <<shVars, authVars, readVars, retryVars, thinkVars, anthVars, mwVars, normVars, resolverVars, firstVars, cancelVars, toolVars, dedupVars, byteVars, drainVars>>

outsideAuth == <<shVars, retryVars, parserVars, streamVars, thinkVars, anthVars, mwVars, normVars, resolverVars, firstVars, cancelVars, toolVars, dedupVars, byteVars, drainVars>>

outsideThinking == <<shVars, authVars, readVars, retryVars, parserVars, streamVars, anthVars, mwVars, normVars, resolverVars, firstVars, cancelVars, toolVars, dedupVars, byteVars, drainVars>>

outsideAnth == <<shVars, authVars, readVars, retryVars, parserVars, streamVars, thinkVars, mwVars, normVars, resolverVars, firstVars, cancelVars, toolVars, dedupVars, byteVars, drainVars>>

outsideMw == <<shVars, authVars, readVars, retryVars, parserVars, streamVars, thinkVars, anthVars, normVars, resolverVars, firstVars, cancelVars, toolVars, dedupVars, byteVars, drainVars>>

outsideNorm == <<shVars, authVars, readVars, retryVars, parserVars, streamVars, thinkVars, anthVars, mwVars, resolverVars, firstVars, cancelVars, toolVars, dedupVars, byteVars, drainVars>>

outsideResolver == <<shVars, authVars, readVars, retryVars, parserVars, streamVars, thinkVars, anthVars, mwVars, normVars, firstVars, cancelVars, toolVars, dedupVars, byteVars, drainVars>>

outsideFirst == <<shVars, authVars, readVars, retryVars, parserVars, streamVars, thinkVars, anthVars, mwVars, normVars, resolverVars, cancelVars, toolVars, dedupVars, byteVars, drainVars>>

outsideCancel == <<shVars, authVars, readVars, retryVars, parserVars, streamVars, thinkVars, anthVars, mwVars, normVars, resolverVars, firstVars, toolVars, dedupVars, byteVars, drainVars>>

outsideTool == <<shVars, authVars, readVars, retryVars, parserVars, streamVars, thinkVars, anthVars, mwVars, normVars, resolverVars, firstVars, cancelVars, dedupVars, byteVars, drainVars>>

outsideDedup == <<shVars, authVars, readVars, retryVars, parserVars, streamVars, thinkVars, anthVars, mwVars, normVars, resolverVars, firstVars, cancelVars, toolVars, byteVars, drainVars>>

outsideBytes == <<shVars, authVars, readVars, retryVars, parserVars, streamVars, thinkVars, anthVars, mwVars, normVars, resolverVars, firstVars, cancelVars, toolVars, dedupVars, drainVars>>

outsideDrain == <<shVars, authVars, readVars, retryVars, parserVars, streamVars, thinkVars, anthVars, mwVars, normVars, resolverVars, firstVars, cancelVars, toolVars, dedupVars, byteVars>>

vars == <<shVars, authVars, readVars, retryVars, parserVars, streamVars, thinkVars, anthVars, mwVars, normVars, resolverVars, firstVars, cancelVars, toolVars, dedupVars, byteVars, drainVars>>

(***************************************************************************)
(* Generic helpers                                                         *)
(***************************************************************************)

\* The value of a subsystem's variable in the specifications that do not run
\* that subsystem: it has no case in progress
NoCase == "none"

\* All sequences over S of length lo..hi
SeqsOf(S, lo, hi) == UNION {[1..n -> S] : n \in lo..hi}

Last(s) == s[Len(s)]

Front(s) == SubSeq(s, 1, Len(s) - 1)

(***************************************************************************)
(* Request shaper (package converter)                                      *)
(***************************************************************************)

\* Bound: longest inbound message list
MaxMsgs == 3

\* Roles an inbound message may carry; "system" and "tool" stand for
\* "any other string"
Roles == {"user", "assistant", "system", "tool"}

\* Text is a sequence of pieces; "\n" is the separator MergeAdjacentMessages inserts
Contents == {<<>>, <<"a">>}

ToolCallLists == {<<>>, <<"t1">>}

UnifiedMessage == [role : Roles, content : Contents, toolCalls : ToolCallLists]

SystemPrompts == {<<>>, <<"S">>}

\* ToolCallsToText: "[Tool: name (id)]\nargs" per call
ToolCallsToText(calls) == [i \in 1..Len(calls) |-> "[Tool]"]

\* strings.Join(parts, "\n\n")
JoinParts(a, b) == a \o <<"\n\n">> \o b

StripAllToolContent(msgs) ==
    [i \in 1..Len(msgs) |->
        IF Len(msgs[i].toolCalls) > 0
        THEN [role |-> msgs[i].role,
              content |-> JoinParts(msgs[i].content, ToolCallsToText(msgs[i].toolCalls)),
              toolCalls |-> <<>>]
        ELSE msgs[i]]

RECURSIVE MergeFrom(_, _)
MergeFrom(merged, rest) ==
    IF rest = <<>> THEN merged
    ELSE LET msg == Head(rest) IN
         IF merged = <<>> THEN MergeFrom(<<msg>>, Tail(rest))
         ELSE LET last == Last(merged) IN
              IF msg.role = last.role
              THEN MergeFrom(
                     Front(merged) \o
                       <<[role |-> last.role,
                          content |-> last.content \o <<"\n">> \o msg.content,
                          toolCalls |-> last.toolCalls \o msg.toolCalls]>>,
                     Tail(rest))
              ELSE MergeFrom(Append(merged, msg), Tail(rest))

MergeAdjacentMessages(msgs) == MergeFrom(<<>>, msgs)

Synthetic(role) == [role |-> role, content |-> <<"(empty)">>, toolCalls |-> <<>>]

EnsureFirstMessageIsUser(msgs) ==
    IF Len(msgs) = 0 \/ msgs[1].role = "user" THEN msgs
    ELSE <<Synthetic("user")>> \o msgs

\* Mutant: unknown roles are left as they are
NormalizeMessageRolesKeep(msgs) == msgs

NormalizeMessageRoles(msgs) ==
    [i \in 1..Len(msgs) |->
        IF msgs[i].role # "user" /\ msgs[i].role # "assistant"
        THEN [msgs[i] EXCEPT !.role = "user"]
        ELSE msgs[i]]

RECURSIVE AlternateFrom(_, _)
AlternateFrom(result, rest) ==
    IF rest = <<>> THEN result
    ELSE LET msg == Head(rest) IN
         IF msg.role = "user" /\ Last(result).role = "user"
         THEN AlternateFrom(result \o <<Synthetic("assistant"), msg>>, Tail(rest))
         ELSE AlternateFrom(Append(result, msg), Tail(rest))

EnsureAlternatingRoles(msgs) ==
    IF Len(msgs) < 2 THEN msgs
    ELSE AlternateFrom(<<msgs[1]>>, Tail(msgs))

\* Index of the first user message of msgs, 0 if none
FirstUser(msgs) ==
    IF \E i \in 1..Len(msgs) : msgs[i].role = "user"
    THEN CHOOSE i \in 1..Len(msgs) :
            msgs[i].role = "user" /\ \A j \in 1..(i-1) : msgs[j].role # "user"
    ELSE 0

\* History, current message and the "Continue" sentinel
MakePayload(shaped, systemPrompt) ==
    LET hist0 == Front(shaped)
        fu    == FirstUser(hist0)
        hist  == IF Len(hist0) > 0 /\ systemPrompt # <<>> /\ fu > 0
                 THEN [hist0 EXCEPT ![fu].content = systemPrompt \o <<"\n\n">> \o @]
                 ELSE hist0
        cur   == Last(shaped)
        c0    == IF systemPrompt # <<>> /\ Len(hist) = 0
                 THEN systemPrompt \o <<"\n\n">> \o cur.content
                 ELSE cur.content
        hist1 == IF cur.role = "assistant"
                 THEN Append(hist, [cur EXCEPT !.content = c0])
                 ELSE hist
        c1    == IF cur.role = "assistant" THEN <<"Continue">> ELSE c0
    IN  [status |-> "ok", history |-> hist1,
         current |-> IF c1 = <<>> THEN <<"Continue">> ELSE c1]

NoPayload(st) == [status |-> st, history |-> <<>>, current |-> <<>>]

\* BuildKiroPayload runs its stages in this order; shStage is the next one
ShaperInit ==
    /\ shInput \in [msgs : SeqsOf(UnifiedMessage, 0, MaxMsgs),
                    systemPrompt : SystemPrompts, hasTools : BOOLEAN]
    /\ messages = shInput.msgs
    /\ shStage = "strip"
    /\ payload = NoPayload("none")

\* if len(tools) == 0 { messages, _ = StripAllToolContent(messages) }
StripStage ==
    /\ shStage = "strip"
    /\ messages' = IF shInput.hasTools THEN messages ELSE StripAllToolContent(messages)
    /\ shStage' = "merge"
    /\ UNCHANGED <<shInput, payload>>

MergeStage ==
    /\ shStage = "merge"
    /\ messages' = MergeAdjacentMessages(messages)
    /\ shStage' = "first"
    /\ UNCHANGED <<shInput, payload>>

FirstUserStage ==
    /\ shStage = "first"
    /\ messages' = EnsureFirstMessageIsUser(messages)
    /\ shStage' = "normalize"
    /\ UNCHANGED <<shInput, payload>>

NormalizeStage ==
    /\ shStage = "normalize"
    /\ messages' = NormalizeMessageRoles(messages)
    /\ shStage' = "alternate"
    /\ UNCHANGED <<shInput, payload>>

AlternateStage ==
    /\ shStage = "alternate"
    /\ messages' = EnsureAlternatingRoles(messages)
    /\ shStage' = "build"
    /\ UNCHANGED <<shInput, payload>>

\* if len(messages) == 0 { return nil }; otherwise history and current message
BuildStage ==
    /\ shStage = "build"
    /\ payload' = IF Len(messages) = 0 THEN NoPayload("nil")
                   ELSE MakePayload(messages, shInput.systemPrompt)
    /\ shStage' = "done"
    /\ UNCHANGED <<shInput, messages>>

ShaperNext ==
    \/ StripStage /\ UNCHANGED outsideShaper
    \/ MergeStage /\ UNCHANGED outsideShaper
    \/ FirstUserStage /\ UNCHANGED outsideShaper
    \/ NormalizeStage /\ UNCHANGED outsideShaper
    \/ AlternateStage /\ UNCHANGED outsideShaper
    \/ BuildStage /\ UNCHANGED outsideShaper

(***************************************************************************)
(* Token manager (package auth)                                            *)
(***************************************************************************)

\* Callers of the manager: the request handler and two further goroutines
Callers == {"h", "c1", "c2"}

\* The goroutines that serve requests concurrently
Goroutines == Callers \ {"h"}

\* Bound: the clock runs from StartTime to MaxTime (units of 60 s)
MaxTime == 4

\* cfg.TokenRefreshThreshold: 600 s, in units of 60 s
TokenRefreshThreshold == 10

\* refreshTokenKiroDesktop / refreshTokenAWSSSOOIDC subtract 60 s from expiresIn
ExpiryBuffer == 1

\* expiresIn values the refresh endpoint may answer with (units of 60 s):
\* already past after the 60 s buffer, inside the threshold, outside it
ExpiresIns == {0, TokenRefreshThreshold, TokenRefreshThreshold + 2}

\* Bound: tokens the refresh endpoint hands out
MaxIssued == 2

\* Bound: writes to the KV row by other processes
MaxExtWrites == 1

StartTime == ExpiryBuffer + 1

\* time.Time zero value
ZeroTime == 0

\* The empty string, for tokens and ARNs (numbered values)
Empty == 0

\* Token values: the one loaded at startup, the one another process writes,
\* the n-th one handed out by the refresh endpoint
LoadedToken == 1
ExternalToken == 2
IssuedToken(n) == 2 + n

AuthTypes == {"kiro_desktop", "aws_sso_oidc"}

\* isTokenExpiringSoonUnlocked with time.Now() = t
IsTokenExpiringSoon(mm, t) ==
    IF mm.expiresAt = ZeroTime THEN TRUE
    ELSE t + TokenRefreshThreshold > mm.expiresAt

\* isTokenExpiredUnlocked with time.Now() = t
IsTokenExpired(mm, t) ==
    IF mm.expiresAt = ZeroTime THEN TRUE
    ELSE t > mm.expiresAt

\* loadCredentialsFromSQLite / loadCredentialsFromFile: every non-empty field
\* of the row overwrites the manager's field
LoadCredentials(mm, row) ==
    [mm EXCEPT
        !.accessToken  = IF row.accessToken # Empty THEN row.accessToken ELSE @,
        !.refreshToken = IF row.refreshToken # Empty THEN row.refreshToken ELSE @,
        !.profileArn   = IF row.profileArn # Empty THEN row.profileArn ELSE @,
        !.expiresAt    = IF row.expiresAt # ZeroTime THEN row.expiresAt ELSE @]

\* saveCredentialsToSQLite replaces the row (no profile ARN in it);
\* saveCredentialsToFile updates the keys of the existing document. Both
\* return without writing, and without an error, when the source cannot be
\* written: no credentials file is configured, the database is missing, no
\* row matches, or the write fails.
SaveCredentials(mm, row) ==
    IF ~row.writable THEN row
    ELSE IF mm.sqliteDB
    THEN [accessToken |-> mm.accessToken, refreshToken |-> mm.refreshToken,
          profileArn |-> Empty, expiresAt |-> mm.expiresAt, writable |-> TRUE]
    ELSE [accessToken |-> mm.accessToken, refreshToken |-> mm.refreshToken,
          profileArn |-> IF mm.profileArn # Empty THEN mm.profileArn ELSE row.profileArn,
          expiresAt |-> IF mm.expiresAt # ZeroTime THEN mm.expiresAt ELSE row.expiresAt,
          writable |-> TRUE]

IdleCall == [pc |-> "idle", op |-> "none", tok |-> Empty, err |-> "nil", path |-> "none"]

\* What the refresh endpoint may answer
\* (full: the answer also carries the optional refreshToken and profileArn)
RefreshOutcomes ==
    [kind : {"transport", "status", "missing"}, expiresIn : {0}, full : {FALSE}]
    \cup [kind : {"ok"}, expiresIn : ExpiresIns, full : BOOLEAN]

\* The assignments after a 200 answer carrying an accessToken
ApplyRefresh(mm, o, t, tokenNo) ==
    [mm EXCEPT
        !.accessToken  = IssuedToken(tokenNo),
        !.refreshToken = IF o.full THEN IssuedToken(tokenNo) ELSE @,
        !.profileArn   = IF o.full /\ mm.authType = "kiro_desktop"
                         THEN IssuedToken(tokenNo) ELSE @,
        !.expiresAt    = t + o.expiresIn - ExpiryBuffer]

\* A caller enters GetAccessToken ("get") or ForceRefresh ("force")
StartCall(p, op) ==
    acall' = [acall EXCEPT ![p] = [IdleCall EXCEPT !.pc = "lock", !.op = op]]

\* Mutant: the lock is taken without waiting for its holder
AuthLockNoWait(p) ==
    /\ acall[p].pc = "lock"
    /\ mu' = p
    /\ acall' = [acall EXCEPT ![p].pc = IF acall[p].op = "get" THEN "check" ELSE "refresh"]
    /\ UNCHANGED <<m, store, now, issued, extWrites>>

\* m.mu.Lock()
AuthLock(p) ==
    /\ acall[p].pc = "lock"
    /\ mu = "free"
    /\ mu' = p
    /\ acall' = [acall EXCEPT ![p].pc = IF acall[p].op = "get" THEN "check" ELSE "refresh"]
    /\ UNCHANGED <<m, store, now, issued, extWrites>>

\* GetAccessToken: "Token is valid and not expiring soon"
AuthCheck(p) ==
    /\ acall[p].pc = "check"
    /\ IF m.accessToken # Empty /\ ~IsTokenExpiringSoon(m, now)
       THEN acall' = [acall EXCEPT ![p].pc = "unlock", ![p].tok = m.accessToken,
                                   ![p].path = "valid"]
       ELSE acall' = [acall EXCEPT ![p].pc = "reload"]
    /\ UNCHANGED <<m, store, mu, now, issued, extWrites>>

\* GetAccessToken: "SQLite mode: reload credentials first"
AuthReload(p) ==
    /\ acall[p].pc = "reload"
    /\ IF m.sqliteDB /\ IsTokenExpiringSoon(m, now)
       THEN LET m2 == LoadCredentials(m, store) IN
            /\ m' = m2
            /\ IF m2.accessToken # Empty /\ ~IsTokenExpiringSoon(m2, now)
               THEN acall' = [acall EXCEPT ![p].pc = "unlock", ![p].tok = m2.accessToken,
                                           ![p].path = "reread"]
               ELSE acall' = [acall EXCEPT ![p].pc = "refresh", ![p].path = "reread"]
       ELSE /\ acall' = [acall EXCEPT ![p].pc = "refresh"]
            /\ UNCHANGED m
    /\ UNCHANGED <<store, mu, now, issued, extWrites>>

\* Mutant: the existing token is returned whatever the credential source
RefreshFailedAnySource(p, err) ==
    IF acall[p].op = "get" /\ m.accessToken # Empty /\ ~IsTokenExpired(m, now)
    THEN [acall[p] EXCEPT !.pc = "unlock", !.tok = m.accessToken, !.err = "nil",
                          !.path = "degraded"]
    ELSE [acall[p] EXCEPT !.pc = "unlock", !.tok = Empty, !.err = err, !.path = "error"]

\* Mutant: the degraded return does not test whether the token has expired
RefreshFailedExpired(p, err) ==
    IF acall[p].op = "get" /\ m.sqliteDB /\ m.accessToken # Empty
    THEN [acall[p] EXCEPT !.pc = "unlock", !.tok = m.accessToken, !.err = "nil",
                          !.path = "degraded"]
    ELSE [acall[p] EXCEPT !.pc = "unlock", !.tok = Empty, !.err = err, !.path = "error"]

\* The return statements after refreshTokenRequest() failed with err:
\* GetAccessToken degrades in SQLite mode, ForceRefresh returns the error
RefreshFailed(p, err) ==
    IF acall[p].op = "get" /\ m.sqliteDB /\ m.accessToken # Empty /\ ~IsTokenExpired(m, now)
    THEN [acall[p] EXCEPT !.pc = "unlock", !.tok = m.accessToken, !.err = "nil",
                          !.path = "degraded"]
    ELSE [acall[p] EXCEPT !.pc = "unlock", !.tok = Empty, !.err = err, !.path = "error"]

\* refreshTokenRequest up to client.Do(req): no request without a refresh token
AuthRefreshSend(p) ==
    /\ acall[p].pc = "refresh"
    /\ IF m.refreshToken = Empty
       THEN acall' = [acall EXCEPT ![p] = RefreshFailed(p, "refresh token is not set")]
       ELSE acall' = [acall EXCEPT ![p].pc = "await"]
    /\ UNCHANGED <<m, store, mu, now, issued, extWrites>>

\* refreshTokenRequest from the endpoint's answer on: on success the fields
\* are assigned and the credentials saved; then the caller's return statement
AuthRefreshRecv(p) ==
    /\ acall[p].pc = "await"
    /\ \E o \in RefreshOutcomes :
        IF o.kind = "ok"
        THEN /\ issued < MaxIssued
             /\ LET m2 == ApplyRefresh(m, o, now, issued + 1) IN
                /\ m' = m2
                /\ store' = SaveCredentials(m2, store)
                /\ issued' = issued + 1
                /\ acall' = [acall EXCEPT ![p].pc = "unlock", ![p].tok = m2.accessToken,
                                            ![p].err = "nil", ![p].path = "refreshed"]
        ELSE /\ acall' = [acall EXCEPT ![p] = RefreshFailed(p, o.kind)]
             /\ UNCHANGED <<m, store, issued>>
    /\ UNCHANGED <<mu, now, extWrites>>

\* A goroutine makes its call of GetAccessToken or ForceRefresh
CallerStart(p) ==
    /\ acall[p].pc = "idle"
    /\ \E op \in {"get", "force"} : StartCall(p, op)
    /\ UNCHANGED <<m, store, mu, now, issued, extWrites>>

NoRead == [by |-> "none", arn |-> Empty, holder |-> "free"]

\* doRequest and the payload builders call ProfileArn(): a plain read of
\* m.profileArn that takes no lock. While another goroutine is inside
\* refreshTokenRequest the read races with its assignment and yields the
\* old or the new value.
ReadProfileArn(p) ==
    /\ acall[p].pc \in {"idle", "done"}
    /\ LET writing == \E q \in Goroutines \ {p} : acall[q].pc = "await" IN
       \E v \in {m.profileArn} \cup (IF writing THEN {IssuedToken(issued + 1)} ELSE {}) :
          arnRead' = [by |-> p, arn |-> v, holder |-> mu]
    /\ UNCHANGED authVars

\* defer m.mu.Unlock() and return to the caller
AuthUnlock(p) ==
    /\ acall[p].pc = "unlock"
    /\ mu' = "free"
    /\ acall' = [acall EXCEPT ![p].pc = "done"]
    /\ UNCHANGED <<m, store, now, issued, extWrites>>

\* Time passes
Tick ==
    /\ now < MaxTime
    /\ now' = now + 1
    /\ UNCHANGED <<m, store, mu, issued, extWrites, acall>>

\* Another process (kiro-cli) refreshes and rewrites the KV row
ExternalStoreWrite ==
    /\ m.sqliteDB
    /\ extWrites < MaxExtWrites
    /\ extWrites' = extWrites + 1
    /\ \E e \in ExpiresIns :
        store' = [accessToken |-> ExternalToken, refreshToken |-> ExternalToken,
                  profileArn |-> Empty, expiresAt |-> now + e - ExpiryBuffer,
                  writable |-> store.writable]
    /\ UNCHANGED <<m, mu, now, issued, acall>>

\* NewManager: the fields after loading the credential source
AuthInit ==
    /\ now = StartTime
    /\ store \in [accessToken : {Empty, LoadedToken}, refreshToken : {Empty, LoadedToken},
                  profileArn : {Empty},
                  expiresAt : {ZeroTime, StartTime + 1, MaxTime + TokenRefreshThreshold},
                  writable : BOOLEAN]
    /\ \E sq \in BOOLEAN, at \in AuthTypes :
        m = LoadCredentials([accessToken |-> Empty, refreshToken |-> Empty,
                             profileArn |-> Empty, expiresAt |-> ZeroTime,
                             sqliteDB |-> sq, authType |-> at], store)
    /\ mu = "free"
    /\ issued = 0
    /\ extWrites = 0
    /\ acall = [p \in Callers |-> IdleCall]

\* Concurrent request goroutines using one Manager
AuthNext ==
    \/ \E p \in Goroutines : CallerStart(p) /\ UNCHANGED readVars /\ UNCHANGED outsideAuth
    \/ \E p \in Goroutines : AuthLock(p) /\ UNCHANGED readVars /\ UNCHANGED outsideAuth
    \/ \E p \in Goroutines : AuthCheck(p) /\ UNCHANGED readVars /\ UNCHANGED outsideAuth
    \/ \E p \in Goroutines : AuthReload(p) /\ UNCHANGED readVars /\ UNCHANGED outsideAuth
    \/ \E p \in Goroutines : AuthRefreshSend(p) /\ UNCHANGED readVars /\ UNCHANGED outsideAuth
    \/ \E p \in Goroutines : AuthRefreshRecv(p) /\ UNCHANGED readVars /\ UNCHANGED outsideAuth
    \/ \E p \in Goroutines : AuthUnlock(p) /\ UNCHANGED readVars /\ UNCHANGED outsideAuth
    \/ Tick /\ UNCHANGED readVars /\ UNCHANGED outsideAuth
    \/ ExternalStoreWrite /\ UNCHANGED readVars /\ UNCHANGED outsideAuth

\* One goroutine inside GetAccessToken or ForceRefresh while another, past
\* its own GetAccessToken, builds its request and calls ProfileArn()
ReadNext ==
    \/ CallerStart("c1") /\ UNCHANGED readVars /\ UNCHANGED outsideAuth
    \/ AuthLock("c1") /\ UNCHANGED readVars /\ UNCHANGED outsideAuth
    \/ AuthCheck("c1") /\ UNCHANGED readVars /\ UNCHANGED outsideAuth
    \/ AuthReload("c1") /\ UNCHANGED readVars /\ UNCHANGED outsideAuth
    \/ AuthRefreshSend("c1") /\ UNCHANGED readVars /\ UNCHANGED outsideAuth
    \/ AuthRefreshRecv("c1") /\ UNCHANGED readVars /\ UNCHANGED outsideAuth
    \/ AuthUnlock("c1") /\ UNCHANGED readVars /\ UNCHANGED outsideAuth
    \/ ReadProfileArn("c2") /\ UNCHANGED outsideAuth
    \/ Tick /\ UNCHANGED readVars /\ UNCHANGED outsideAuth
    \/ ExternalStoreWrite /\ UNCHANGED readVars /\ UNCHANGED outsideAuth

(***************************************************************************)
(* HTTP executor (package client) and the streaming chat handler           *)
(***************************************************************************)

\* cfg.MaxRetries (default)
MaxRetries == 3

\* Bound: frames the framer hands to the handler's range loop
MaxFrames == 2

\* Statuses an upstream answer may carry
UpstreamStatuses == {200, 400, 403, 429, 500}

\* The body of the response to the n-th upstream request
BodyOf(n) == <<"body1", "body2", "body3", "body4">>[n]

NoResp == [status |-> 0, body |-> ""]

NoClient == [status |-> 0, type |-> "none", message |-> <<>>]

NoReq == [tok |-> Empty, path |-> "none"]

NoForce == [called |-> FALSE, ok |-> FALSE, tok |-> Empty]

\* fmt.Errorf("...: %w", err) with a nil err prints "%!w(<nil>)"
ErrText(err) == IF err = "nil" THEN "%!w(<nil>)" ELSE err

\* handleStreamingChatCompletion calls s.HttpClient.PostStream
HandlerStart ==
    /\ hpc = "start"
    /\ hpc' = "request"
    /\ rpc' = "loop"
    /\ attempt' = 0
    /\ lastErr' = "nil"
    /\ UNCHANGED <<resp, client, framesWritten, reqCount, lastReq, prevStatus, forced, allStatus>>
    /\ UNCHANGED authVars

\* Mutant: the loop admits one attempt more
RetryLoopOneMore ==
    /\ rpc = "loop"
    /\ IF attempt < MaxRetries + 1
       THEN /\ rpc' = "token"
            /\ StartCall("h", "get")
       ELSE /\ rpc' = "failed"
            /\ UNCHANGED acall
    /\ UNCHANGED <<hpc, attempt, lastErr, resp, client, framesWritten,
                   reqCount, lastReq, prevStatus, forced, allStatus>>
    /\ UNCHANGED <<m, store, mu, now, issued, extWrites>>

\* for attempt := 0; attempt < c.cfg.MaxRetries; attempt++ { sleep; doRequest
\* begins with GetAccessToken }; after the loop the error return
RetryLoop ==
    /\ rpc = "loop"
    /\ IF attempt < MaxRetries
       THEN /\ rpc' = "token"
            /\ StartCall("h", "get")
       ELSE /\ rpc' = "failed"
            /\ UNCHANGED acall
    /\ UNCHANGED <<hpc, attempt, lastErr, resp, client, framesWritten,
                   reqCount, lastReq, prevStatus, forced, allStatus>>
    /\ UNCHANGED <<m, store, mu, now, issued, extWrites>>

\* doRequest after GetAccessToken returned: an error ends the attempt, a
\* token goes out in the Authorization header
RetrySend ==
    /\ rpc = "token"
    /\ acall["h"].pc = "done"
    /\ IF acall["h"].err # "nil"
       THEN /\ lastErr' = "failed to get access token"
            /\ attempt' = attempt + 1
            /\ rpc' = "loop"
            /\ allStatus' = FALSE
            /\ UNCHANGED <<reqCount, lastReq>>
       ELSE /\ reqCount' = reqCount + 1
            /\ lastReq' = [tok |-> acall["h"].tok, path |-> acall["h"].path]
            /\ rpc' = "inflight"
            /\ UNCHANGED <<lastErr, attempt, allStatus>>
    /\ acall' = [acall EXCEPT !["h"] = IdleCall]
    /\ UNCHANGED <<hpc, resp, client, framesWritten, prevStatus, forced>>
    /\ UNCHANGED <<m, store, mu, now, issued, extWrites>>

\* Mutant: a 429 is treated like a 403
RetryableWithRefreshWide(status) == status \in {403, 429}

\* resp.StatusCode == http.StatusForbidden
RetryableWithRefresh(status) == status = 403

\* resp.StatusCode == 429 or >= 500
RetryablePlain(status) == status = 429 \/ status >= 500

\* The answer to c.httpClient.Do(req) and the status checks that follow
RetryResponse ==
    /\ rpc = "inflight"
    /\ forced' = NoForce
    /\ \/ /\ prevStatus' = 0
          /\ allStatus' = FALSE
          /\ lastErr' = "request failed"
          /\ attempt' = attempt + 1
          /\ rpc' = "loop"
          /\ UNCHANGED <<resp, acall>>
       \/ \E o \in UpstreamStatuses :
          /\ prevStatus' = o
          /\ IF RetryableWithRefresh(o)
             THEN /\ rpc' = "force"
                  /\ StartCall("h", "force")
                  /\ UNCHANGED <<resp, attempt, lastErr, allStatus>>
             ELSE IF RetryablePlain(o)
             THEN /\ rpc' = "loop"
                  /\ attempt' = attempt + 1
                  /\ UNCHANGED <<resp, acall, lastErr, allStatus>>
             ELSE /\ rpc' = "returned"
                  /\ resp' = [status |-> o, body |-> BodyOf(reqCount)]
                  /\ allStatus' = FALSE
                  /\ UNCHANGED <<attempt, acall, lastErr>>
    /\ UNCHANGED <<hpc, client, framesWritten, reqCount, lastReq>>
    /\ UNCHANGED <<m, store, mu, now, issued, extWrites>>

\* ForceRefresh returned: its error is only logged, the loop continues
RetryForceDone ==
    /\ rpc = "force"
    /\ acall["h"].pc = "done"
    /\ forced' = [called |-> TRUE, ok |-> acall["h"].err = "nil", tok |-> acall["h"].tok]
    /\ acall' = [acall EXCEPT !["h"] = IdleCall]
    /\ attempt' = attempt + 1
    /\ rpc' = "loop"
    /\ UNCHANGED <<hpc, lastErr, resp, client, framesWritten,
                   reqCount, lastReq, prevStatus, allStatus>>
    /\ UNCHANGED <<m, store, mu, now, issued, extWrites>>

\* PostStream returned an error: 500 with "Request failed: <err>"
HandlerError ==
    /\ hpc = "request"
    /\ rpc = "failed"
    /\ client' = [status |-> 500, type |-> "internal_error",
                  message |-> <<"Request failed: ", "all retry attempts failed: ",
                                ErrText(lastErr)>>]
    /\ hpc' = "done"
    /\ rpc' = "idle"
    /\ UNCHANGED <<attempt, lastErr, resp, framesWritten,
                   reqCount, lastReq, prevStatus, forced, allStatus>>
    /\ UNCHANGED authVars

\* resp.StatusCode != 200: status and body are forwarded as api_error
HandlerForward ==
    /\ hpc = "request"
    /\ rpc = "returned"
    /\ resp.status # 200
    /\ client' = [status |-> resp.status, type |-> "api_error", message |-> <<resp.body>>]
    /\ hpc' = "done"
    /\ rpc' = "idle"
    /\ UNCHANGED <<attempt, lastErr, resp, framesWritten,
                   reqCount, lastReq, prevStatus, forced, allStatus>>
    /\ UNCHANGED authVars

\* 200: the SSE headers are set and the range loop over the framer's channel begins
HandlerStream ==
    /\ hpc = "request"
    /\ rpc = "returned"
    /\ resp.status = 200
    /\ client' = [status |-> 200, type |-> "sse", message |-> <<>>]
    /\ hpc' = "stream"
    /\ rpc' = "idle"
    /\ UNCHANGED <<attempt, lastErr, resp, framesWritten,
                   reqCount, lastReq, prevStatus, forced, allStatus>>
    /\ UNCHANGED authVars

\* for event := range events { c.Writer.WriteString(event); flusher.Flush() }
HandlerWriteFrame ==
    /\ hpc = "stream"
    /\ framesWritten < MaxFrames
    /\ framesWritten' = framesWritten + 1
    /\ client' = [client EXCEPT !.message = Append(@, "frame")]
    /\ UNCHANGED <<hpc, rpc, attempt, lastErr, resp,
                   reqCount, lastReq, prevStatus, forced, allStatus>>
    /\ UNCHANGED authVars

\* Mutant: when the stream ends the request is issued once more
HandlerStreamEndRetry ==
    /\ hpc = "stream"
    /\ framesWritten' = framesWritten + 1
    /\ client' = [client EXCEPT !.message = Append(@, "[DONE]")]
    /\ hpc' = IF attempt < MaxRetries - 1 THEN "request" ELSE "done"
    /\ rpc' = IF attempt < MaxRetries - 1 THEN "loop" ELSE rpc
    /\ attempt' = MaxRetries - 1
    /\ UNCHANGED <<lastErr, resp, reqCount, lastReq, prevStatus, forced, allStatus>>
    /\ UNCHANGED authVars

\* The channel is closed: "data: [DONE]" is written and the handler returns
HandlerStreamEnd ==
    /\ hpc = "stream"
    /\ framesWritten' = framesWritten + 1
    /\ client' = [client EXCEPT !.message = Append(@, "[DONE]")]
    /\ hpc' = "done"
    /\ UNCHANGED <<rpc, attempt, lastErr, resp,
                   reqCount, lastReq, prevStatus, forced, allStatus>>
    /\ UNCHANGED authVars

RetryInit ==
    /\ hpc = "start"
    /\ rpc = "idle"
    /\ attempt = 0
    /\ lastErr = "nil"
    /\ resp = NoResp
    /\ client = NoClient
    /\ framesWritten = 0
    /\ reqCount = 0
    /\ lastReq = NoReq
    /\ prevStatus = 0
    /\ forced = NoForce
    /\ allStatus = TRUE

\* Time passes, and other processes write the KV row, while the request is
\* being made
RetryNext ==
    \/ HandlerStart /\ UNCHANGED outsideRetry
    \/ RetryLoop /\ UNCHANGED outsideRetry
    \/ RetrySend /\ UNCHANGED outsideRetry
    \/ RetryResponse /\ UNCHANGED outsideRetry
    \/ RetryForceDone /\ UNCHANGED outsideRetry
    \/ HandlerError /\ UNCHANGED outsideRetry
    \/ HandlerForward /\ UNCHANGED outsideRetry
    \/ HandlerStream /\ UNCHANGED outsideRetry
    \/ HandlerWriteFrame /\ UNCHANGED outsideRetry
    \/ HandlerStreamEnd /\ UNCHANGED outsideRetry
    \/ AuthLock("h") /\ UNCHANGED retryVars /\ UNCHANGED outsideRetry
    \/ AuthCheck("h") /\ UNCHANGED retryVars /\ UNCHANGED outsideRetry
    \/ AuthReload("h") /\ UNCHANGED retryVars /\ UNCHANGED outsideRetry
    \/ AuthRefreshSend("h") /\ UNCHANGED retryVars /\ UNCHANGED outsideRetry
    \/ AuthRefreshRecv("h") /\ UNCHANGED retryVars /\ UNCHANGED outsideRetry
    \/ AuthUnlock("h") /\ UNCHANGED retryVars /\ UNCHANGED outsideRetry
    \/ hpc = "request" /\ Tick /\ UNCHANGED retryVars /\ UNCHANGED outsideRetry
    \/ hpc = "request" /\ ExternalStoreWrite /\ UNCHANGED retryVars /\ UNCHANGED outsideRetry

(***************************************************************************)
(* Upstream event-stream parser (package parser)                           *)
(***************************************************************************)

\* Bound: JSON objects (and runs of framing bytes) the upstream writes
MaxObjs == 4

\* Content text is a sequence of tokens: "w" stands for ten bytes of plain
\* text, and the thinking tags are tokens of their own
OpenTag == "<thinking>"
CloseTag == "</thinking>"

\* Content texts of the parser's inputs
Texts == {<<>>, <<"w">>}

\* JSON text is a sequence of tokens: braces, the members "a" and "b" (a key
\* with its value), the comma and white space
Keys == {"a", "b"}

StripWs(s) == SelectSeq(s, LAMBDA t : t # " ")

\* json.Unmarshal into interface{} succeeds: an object of comma-separated
\* members, white space anywhere between the tokens
ValidJSON(s) ==
    LET t == StripWs(s) IN
    /\ Len(t) >= 2
    /\ t[1] = "{"
    /\ t[Len(t)] = "}"
    /\ \/ Len(t) = 2
       \/ /\ Len(t) % 2 = 1
          /\ \A i \in 2..(Len(t) - 1) :
                IF i % 2 = 0 THEN t[i] \in Keys ELSE t[i] = ","

\* The map json.Unmarshal builds: the keys of the object
JSONKeys(s) == {s[i] : i \in 1..Len(s)} \cap Keys

\* json.Marshal of that map: keys sorted, no white space
MarshalKeys(keys) ==
    <<"{">> \o (IF keys = {"a", "b"} THEN <<"a", ",", "b">>
                ELSE IF keys = {"a"} THEN <<"a">>
                ELSE IF keys = {"b"} THEN <<"b">>
                ELSE <<>>) \o <<"}">>

EmptyObject == <<"{", "}">>

\* The "input" value of a name or input object: absent (or of another type),
\* a string, or a JSON object
NoInput == [kind |-> "none", val |-> <<>>]
StrInput(v) == [kind |-> "string", val |-> v]
ObjInput(v) == [kind |-> "object", val |-> v]

InputValues ==
    {NoInput, StrInput(<<"{", "b">>), StrInput(<<",", "a">>), StrInput(<<"}">>),
     StrInput(<<"{", " ", "}">>), ObjInput(<<"{", "b", ",", "a", "}">>)}

\* switch v := data.Input.(type): a string as it is, a map re-marshalled
InputText(input) ==
    CASE input.kind = "string" -> input.val
      [] input.kind = "object" -> MarshalKeys(JSONKeys(input.val))
      [] OTHER -> <<>>

\* One JSON object of the stream; bad: its text does not unmarshal into the
\* struct of its type
Obj(type, text, followup, id, input, stop, bad) ==
    [type |-> type, text |-> text, followup |-> followup, id |-> id,
     input |-> input, stop |-> stop, bad |-> bad]

NoObj == Obj("none", <<>>, FALSE, "", NoInput, FALSE, FALSE)

ContentObjs ==
    {Obj("content", t, f, "", NoInput, FALSE, FALSE) : t \in Texts, f \in BOOLEAN}
    \cup {Obj("content", <<>>, FALSE, "", NoInput, FALSE, TRUE)}

UsageObjs ==
    {Obj("usage", <<>>, FALSE, "", NoInput, FALSE, FALSE),
     Obj("context_usage", <<>>, FALSE, "", NoInput, FALSE, FALSE)}

ToolObjs ==
    {Obj("tool_start", <<>>, FALSE, id, i, s, FALSE) :
        id \in {"", "tu1"}, i \in {NoInput, StrInput(<<"{", "b">>)}, s \in BOOLEAN}
    \cup {Obj("tool_start", <<>>, FALSE, "", NoInput, FALSE, TRUE)}
    \cup {Obj("tool_input", <<>>, FALSE, "", i, FALSE, FALSE) : i \in InputValues}
    \cup {Obj("tool_input", <<>>, FALSE, "", NoInput, FALSE, TRUE)}
    \cup {Obj("tool_stop", <<>>, FALSE, "", NoInput, s, FALSE) : s \in BOOLEAN}

ParserObjs == ContentObjs \cup UsageObjs \cup ToolObjs

\* The byte stream in pieces: the first part of an object's text (with the
\* pattern that starts it), the rest of it (to the matching brace), and
\* framing bytes that hold no pattern
HeadOf(o) == [k |-> "head", o |-> o]
TailSym == [k |-> "tail", o |-> NoObj]
JunkSym == [k |-> "junk", o |-> NoObj]

NoEvent == [type |-> "none", text |-> <<>>]

NoCall == [set |-> FALSE, id |-> "", name |-> "", arguments |-> <<>>]

\* utils.GenerateToolCallID: the n-th generated id
GenID(n) == <<"call_1", "call_2", "call_3", "call_4", "call_5">>[n]

\* NewAwsEventStreamParser (rawArgs, generated and deduped are bookkeeping:
\* the arguments each finalized call had accumulated, the ids generated so
\* far, the content objects dropped as repeats)
NewParser ==
    [buffer |-> <<>>, lastContent |-> [set |-> FALSE, text |-> <<>>],
     currentToolCall |-> NoCall, toolCalls |-> <<>>,
     rawArgs |-> <<>>, generated |-> 0, deduped |-> 0]

\* Mutant: arguments that do not parse are kept as they are
FinalArgumentsKeepBad(args) ==
    IF args # <<>> /\ ValidJSON(args) THEN MarshalKeys(JSONKeys(args)) ELSE args

\* finalizeToolCall: the arguments it stores
FinalArguments(args) ==
    IF args # <<>>
    THEN IF ValidJSON(args) THEN MarshalKeys(JSONKeys(args)) ELSE EmptyObject
    ELSE EmptyObject

\* finalizeToolCall
finalizeToolCall(p) ==
    IF ~p.currentToolCall.set THEN p
    ELSE LET c == p.currentToolCall
             gen == c.id = ""
             tc == [id |-> IF gen THEN GenID(p.generated + 1) ELSE c.id,
                    name |-> c.name,
                    arguments |-> FinalArguments(c.arguments)]
         IN [p EXCEPT !.toolCalls = Append(@, tc),
                      !.rawArgs = Append(@, c.arguments),
                      !.generated = IF gen THEN @ + 1 ELSE @,
                      !.currentToolCall = NoCall]

\* Mutant: repeated content is not dropped
processContentEventNoDedup(p, o) ==
    IF o.bad \/ o.followup THEN [p |-> p, ev |-> NoEvent]
    ELSE [p |-> [p EXCEPT !.lastContent = [set |-> TRUE, text |-> o.text]],
          ev |-> [type |-> "content", text |-> o.text]]

processContentEvent(p, o) ==
    IF o.bad THEN [p |-> p, ev |-> NoEvent]
    ELSE IF o.followup THEN [p |-> p, ev |-> NoEvent]
    ELSE IF p.lastContent.set /\ o.text = p.lastContent.text
         THEN [p |-> [p EXCEPT !.deduped = @ + 1], ev |-> NoEvent]
    ELSE [p |-> [p EXCEPT !.lastContent = [set |-> TRUE, text |-> o.text]],
          ev |-> [type |-> "content", text |-> o.text]]

processToolStartEvent(p, o) ==
    LET p1 == IF p.currentToolCall.set THEN finalizeToolCall(p) ELSE p
        p2 == [p1 EXCEPT !.currentToolCall =
                  [set |-> TRUE, id |-> o.id, name |-> "f",
                   arguments |-> InputText(o.input)]]
    IN IF o.bad THEN [p |-> p1, ev |-> NoEvent]
       ELSE [p |-> IF o.stop THEN finalizeToolCall(p2) ELSE p2, ev |-> NoEvent]

\* Mutant: a call is finalized as soon as its accumulated arguments parse
processToolInputEventEager(p, o) ==
    IF ~p.currentToolCall.set \/ o.bad THEN [p |-> p, ev |-> NoEvent]
    ELSE LET q == [p EXCEPT !.currentToolCall.arguments = @ \o InputText(o.input)]
         IN [p |-> IF ValidJSON(q.currentToolCall.arguments) THEN finalizeToolCall(q) ELSE q,
             ev |-> NoEvent]

\* Mutant: a fragment is put in front of the accumulated arguments
processToolInputEventPrepend(p, o) ==
    IF ~p.currentToolCall.set \/ o.bad THEN [p |-> p, ev |-> NoEvent]
    ELSE [p |-> [p EXCEPT !.currentToolCall.arguments = InputText(o.input) \o @],
          ev |-> NoEvent]

processToolInputEvent(p, o) ==
    IF ~p.currentToolCall.set \/ o.bad THEN [p |-> p, ev |-> NoEvent]
    ELSE [p |-> [p EXCEPT !.currentToolCall.arguments = @ \o InputText(o.input)],
          ev |-> NoEvent]

processToolStopEvent(p, o) ==
    IF o.bad THEN [p |-> p, ev |-> NoEvent]
    ELSE [p |-> IF p.currentToolCall.set /\ o.stop THEN finalizeToolCall(p) ELSE p,
          ev |-> NoEvent]

processEvent(p, o) ==
    CASE o.type = "content" -> processContentEvent(p, o)
      [] o.type = "tool_start" -> processToolStartEvent(p, o)
      [] o.type = "tool_input" -> processToolInputEvent(p, o)
      [] o.type = "tool_stop" -> processToolStopEvent(p, o)
      [] OTHER -> [p |-> p, ev |-> IF o.bad THEN NoEvent
                                   ELSE [type |-> o.type, text |-> <<>>]]

\* The earliest position in the buffer where a pattern starts (0: none)
EarliestPos(buf) ==
    IF \E i \in 1..Len(buf) : buf[i].k = "head"
    THEN CHOOSE i \in 1..Len(buf) :
            /\ buf[i].k = "head"
            /\ \A j \in 1..(i - 1) : buf[j].k # "head"
    ELSE 0

\* FindMatchingBrace from a pattern's position (0: the object is not complete)
FindMatchingBrace(buf, pos) ==
    IF pos < Len(buf) /\ buf[pos + 1].k = "tail" THEN pos + 1 ELSE 0

\* The for loop of Feed, once the chunk is appended to the buffer
RECURSIVE FeedLoop(_, _)
FeedLoop(p, events) ==
    LET pos == EarliestPos(p.buffer)
        jsonEnd == FindMatchingBrace(p.buffer, pos)
    IN IF pos = 0 \/ jsonEnd = 0 THEN [p |-> p, events |-> events]
       ELSE LET r == processEvent(
                        [p EXCEPT !.buffer = SubSeq(@, jsonEnd + 1, Len(@))],
                        p.buffer[pos].o)
            IN FeedLoop(r.p, IF r.ev = NoEvent THEN events ELSE Append(events, r.ev))

\* Feed(chunk)
Feed(p, chunk) == FeedLoop([p EXCEPT !.buffer = @ \o chunk], <<>>)

\* The upstream writes an object, or framing bytes
Produce ==
    /\ produced < MaxObjs
    /\ Len(wire) <= 1
    /\ produced' = produced + 1
    /\ \/ \E o \in ParserObjs : wire' = wire \o <<HeadOf(o), TailSym>>
       \/ wire' = Append(wire, JunkSym)
    /\ UNCHANGED <<psr, emitted>>

\* The reader passes the next bytes, however many, to Feed
FeedChunk ==
    /\ \E n \in 1..Len(wire) :
        LET r == Feed(psr, SubSeq(wire, 1, n)) IN
        /\ psr' = r.p
        /\ emitted' = emitted \o r.events
        /\ wire' = SubSeq(wire, n + 1, Len(wire))
    /\ UNCHANGED produced

\* GetToolCalls finalizes a pending call
GetToolCalls ==
    /\ psr.currentToolCall.set
    /\ psr' = finalizeToolCall(psr)
    /\ UNCHANGED <<wire, emitted, produced>>

ParserInit ==
    /\ wire = <<>>
    /\ psr = NewParser
    /\ emitted = <<>>
    /\ produced = 0

ParserNext ==
    \/ Produce /\ UNCHANGED outsideParser
    \/ FeedChunk /\ UNCHANGED outsideParser
    \/ GetToolCalls /\ UNCHANGED outsideParser

(***************************************************************************)
(* Thinking-block parser (package parser, thinking.go)                     *)
(***************************************************************************)

\* cfg.FakeReasoningBufferSize (bytes)
InitialBufferSize == 20

TokenLen(t) == CASE t = OpenTag -> 10 [] t = CloseTag -> 11 [] OTHER -> 10

\* len(text) in bytes
RECURSIVE TextLen(_)
TextLen(s) == IF s = <<>> THEN 0 ELSE TokenLen(Head(s)) + TextLen(Tail(s))

\* strings.Index of a tag (0: not contained)
IndexOf(s, t) ==
    IF \E i \in 1..Len(s) : s[i] = t
    THEN CHOOSE i \in 1..Len(s) : s[i] = t /\ \A j \in 1..(i - 1) : s[j] # t
    ELSE 0

HandlingModes == {"as_reasoning_content", "remove", "pass", "strip_tags"}

\* NewThinkingParser (of the configured open tags the model's texts use one)
NewThinkingParser(mode) ==
    [on |-> TRUE, handlingMode |-> mode, buffer |-> <<>>, inThinking |-> FALSE,
     foundThinking |-> FALSE, thinkingContent |-> <<>>, thinkingTagClose |-> "",
     thinkingEnded |-> FALSE, firstThinkingSent |-> FALSE]

\* thinkingParser == nil
NoThinkingParser == [NewThinkingParser("none") EXCEPT !.on = FALSE]

NoResult == [ThinkingContent |-> <<>>, RegularContent |-> <<>>,
             IsFirstThinkingChunk |-> FALSE, IsLastThinkingChunk |-> FALSE]

processForOutput(tp, content, isFirst, isLast) ==
    CASE tp.handlingMode = "remove" -> <<>>
      [] tp.handlingMode = "pass" ->
            (IF isFirst THEN <<OpenTag>> ELSE <<>>) \o content
                \o (IF isLast THEN <<tp.thinkingTagClose>> ELSE <<>>)
      [] OTHER -> content

processThinkingContent(tp, content, result) ==
    LET idx == IndexOf(content, tp.thinkingTagClose) IN
    IF tp.thinkingTagClose = "" THEN [tp |-> tp, result |-> result]
    ELSE IF idx # 0
    THEN LET thinkingPart == SubSeq(content, 1, idx - 1)
             regularPart == SubSeq(content, idx + 1, Len(content))
         IN [tp |-> [tp EXCEPT !.thinkingContent = @ \o thinkingPart,
                               !.inThinking = FALSE,
                               !.thinkingEnded = TRUE],
             result |-> [result EXCEPT
                 !.ThinkingContent =
                     processForOutput(tp, thinkingPart, ~tp.firstThinkingSent, TRUE),
                 !.IsLastThinkingChunk = TRUE,
                 !.RegularContent = IF regularPart # <<>> THEN regularPart ELSE @]]
    ELSE [tp |-> [tp EXCEPT !.thinkingContent = @ \o content,
                            !.firstThinkingSent = TRUE],
          result |-> [result EXCEPT
              !.ThinkingContent =
                  processForOutput(tp, content, ~tp.firstThinkingSent, FALSE),
              !.IsFirstThinkingChunk = IF ~tp.firstThinkingSent THEN TRUE ELSE @]]

checkForThinkingTag(tp, result) ==
    LET idx == IndexOf(tp.buffer, OpenTag) IN
    IF idx # 0
    THEN LET tp1 == [tp EXCEPT !.foundThinking = TRUE, !.inThinking = TRUE,
                               !.thinkingTagClose = CloseTag]
             beforeTag == SubSeq(tp.buffer, 1, idx - 1)
             afterTag == SubSeq(tp.buffer, idx + 1, Len(tp.buffer))
             r1 == [result EXCEPT
                        !.RegularContent = IF beforeTag # <<>> THEN beforeTag ELSE @]
             r2 == IF afterTag # <<>> THEN processThinkingContent(tp1, afterTag, r1)
                   ELSE [tp |-> tp1, result |-> r1]
         IN [tp |-> r2.tp, result |-> [r2.result EXCEPT !.IsFirstThinkingChunk = TRUE]]
    ELSE [tp |-> [tp EXCEPT !.buffer = <<>>],
          result |-> [result EXCEPT !.RegularContent = tp.buffer]]

\* Mutant: Feed without the pass-through of a finished thinking block
ThinkingFeedNoEndCheck(tp, content) ==
    IF tp.inThinking THEN processThinkingContent(tp, content, NoResult)
    ELSE IF ~tp.foundThinking
    THEN LET tp1 == [tp EXCEPT !.buffer = @ \o content] IN
         IF TextLen(tp1.buffer) >= InitialBufferSize
         THEN checkForThinkingTag(tp1, NoResult)
         ELSE [tp |-> tp1, result |-> NoResult]
    ELSE processThinkingContent(tp, content, NoResult)

\* ThinkingParser.Feed
ThinkingFeed(tp, content) ==
    IF tp.thinkingEnded
    THEN [tp |-> tp, result |-> [NoResult EXCEPT !.RegularContent = content]]
    ELSE IF tp.inThinking THEN processThinkingContent(tp, content, NoResult)
    ELSE IF ~tp.foundThinking
    THEN LET tp1 == [tp EXCEPT !.buffer = @ \o content] IN
         IF TextLen(tp1.buffer) >= InitialBufferSize
         THEN checkForThinkingTag(tp1, NoResult)
         ELSE [tp |-> tp1, result |-> NoResult]
    ELSE processThinkingContent(tp, content, NoResult)

\* ThinkingParser.Finalize
ThinkingFinalize(tp) ==
    LET flush == tp.buffer # <<>> /\ ~tp.foundThinking
        tp1 == IF flush THEN [tp EXCEPT !.buffer = <<>>] ELSE tp
        r1 == IF flush THEN [NoResult EXCEPT !.RegularContent = tp.buffer] ELSE NoResult
    IN IF tp1.inThinking
       THEN [tp |-> [tp1 EXCEPT !.inThinking = FALSE, !.thinkingEnded = TRUE],
             result |-> [r1 EXCEPT
                 !.ThinkingContent =
                     processForOutput(tp1, tp1.thinkingContent,
                                      ~tp1.firstThinkingSent, TRUE),
                 !.IsLastThinkingChunk = TRUE]]
       ELSE [tp |-> tp1, result |-> r1]

\* Bound: Feed calls made on one parser
MaxFeeds == 3

\* Finalize calls made on one parser (the second is the repeated call)
MaxFinalizes == 2

\* The chunks fed ("w" and "a" are ten bytes of plain text each)
ThinkTexts ==
    {<<"w">>, <<"a">>, <<OpenTag>>, <<OpenTag, "w">>, <<CloseTag, "w">>,
     <<OpenTag, "w", CloseTag, "a">>}

\* A parser with no call made on it yet (flushed: a Feed found the buffer at
\* the threshold with no open tag in it and returned it as regular content;
\* fed, thinking, regular: all content given and all content returned so far)
NewThinkCase(mode) ==
    [tp |-> NewThinkingParser(mode), op |-> "none", content |-> <<>>,
     result |-> NoResult, feeds |-> 0, finals |-> 0, flushed |-> FALSE,
     fed |-> <<>>, thinking |-> <<>>, regular |-> <<>>]

\* Feed reaches checkForThinkingTag and finds no open tag
FlushesWithoutTag(tp, content) ==
    /\ ~tp.thinkingEnded /\ ~tp.inThinking /\ ~tp.foundThinking
    /\ TextLen(tp.buffer \o content) >= InitialBufferSize
    /\ IndexOf(tp.buffer \o content, OpenTag) = 0

\* parser.Feed(content)
ThinkFeedCall ==
    /\ tk.feeds < MaxFeeds
    /\ \E c \in ThinkTexts :
        LET r == ThinkingFeed(tk.tp, c) IN
        tk' = [tk EXCEPT !.tp = r.tp, !.op = "feed", !.content = c,
                         !.result = r.result, !.feeds = @ + 1,
                         !.flushed = @ \/ FlushesWithoutTag(tk.tp, c),
                         !.fed = @ \o c,
                         !.thinking = @ \o r.result.ThinkingContent,
                         !.regular = @ \o r.result.RegularContent]

\* parser.Finalize()
ThinkFinalizeCall ==
    /\ tk.finals < MaxFinalizes
    /\ LET r == ThinkingFinalize(tk.tp) IN
       tk' = [tk EXCEPT !.tp = r.tp, !.op = "finalize", !.content = <<>>,
                        !.result = r.result, !.finals = @ + 1,
                        !.thinking = @ \o r.result.ThinkingContent,
                        !.regular = @ \o r.result.RegularContent]

ThinkInit == tk \in {NewThinkCase(mode) : mode \in HandlingModes}

ThinkIdle == tk = NoCase

(***************************************************************************)
(* Tool-call deduplication (package parser)                                *)
(***************************************************************************)

\* len(arguments) in bytes: a member is "k":1
RECURSIVE ArgLen(_)
ArgLen(s) ==
    IF s = <<>> THEN 0
    ELSE (IF Head(s) \in Keys THEN 5 ELSE 1) + ArgLen(Tail(s))

\* Mutant: on equal length the later entry replaces the earlier
RECURSIVE KeptByIDLast(_, _, _)
KeptByIDLast(tcs, id, existing) ==
    IF tcs = <<>> THEN existing
    ELSE LET tc == Head(tcs) IN
         IF tc.id # id THEN KeptByIDLast(Tail(tcs), id, existing)
         ELSE IF existing = <<>> THEN KeptByIDLast(Tail(tcs), id, <<tc>>)
         ELSE IF /\ tc.arguments # EmptyObject
                 /\ \/ existing[1].arguments = EmptyObject
                    \/ ArgLen(tc.arguments) >= ArgLen(existing[1].arguments)
              THEN KeptByIDLast(Tail(tcs), id, <<tc>>)
              ELSE KeptByIDLast(Tail(tcs), id, existing)

\* The entry byID holds for an id after the first loop
RECURSIVE KeptByID(_, _, _)
KeptByID(tcs, id, existing) ==
    IF tcs = <<>> THEN existing
    ELSE LET tc == Head(tcs) IN
         IF tc.id # id THEN KeptByID(Tail(tcs), id, existing)
         ELSE IF existing = <<>> THEN KeptByID(Tail(tcs), id, <<tc>>)
         ELSE IF /\ tc.arguments # EmptyObject
                 /\ \/ existing[1].arguments = EmptyObject
                    \/ ArgLen(tc.arguments) > ArgLen(existing[1].arguments)
              THEN KeptByID(Tail(tcs), id, <<tc>>)
              ELSE KeptByID(Tail(tcs), id, existing)

\* The last loop: the first call of each name and arguments is kept
RECURSIVE UniqueByKey(_, _)
UniqueByKey(tcs, seen) ==
    IF tcs = <<>> THEN <<>>
    ELSE LET tc == Head(tcs)
             key == <<tc.name, tc.arguments>>
         IN IF key \in seen THEN UniqueByKey(Tail(tcs), seen)
            ELSE <<tc>> \o UniqueByKey(Tail(tcs), seen \cup {key})

\* DeduplicateToolCalls: every result it can return (the calls with an id
\* come out of a map, in any order)
DeduplicateToolCalls(tcs) ==
    LET ids == {tcs[i].id : i \in 1..Len(tcs)} \ {""}
        kept == {KeptByID(tcs, id, <<>>)[1] : id \in ids}
        orders == {s \in SeqsOf(kept, Cardinality(kept), Cardinality(kept)) :
                        \A i, j \in 1..Len(s) : i # j => s[i] # s[j]}
        noID == SelectSeq(tcs, LAMBDA tc : tc.id = "")
    IN {UniqueByKey(s \o noID, {}) : s \in orders}

(***************************************************************************)
(* Streaming pipeline (package stream and the chat-completion handlers)    *)
(***************************************************************************)

\* Bound: JSON objects the upstream writes into one response body
MaxStreamObjs == 3

\* make(chan KiroEvent, 100), make(chan error, 1), make(chan string, 100)
EventsCap == 100
ErrsCap == 1
OutputCap == 100

\* Content texts of the stream: "w" and "a" are ten bytes of plain text each
StreamTexts ==
    {<<"w">>, <<"a">>, <<OpenTag, "w">>, <<CloseTag, "w">>, <<OpenTag, "w", CloseTag, "a">>}

StreamObjs ==
    {Obj("content", t, FALSE, "", NoInput, FALSE, FALSE) : t \in StreamTexts}
    \cup {Obj("usage", <<>>, FALSE, "", NoInput, FALSE, FALSE)}
    \cup {Obj("tool_start", <<>>, FALSE, id, NoInput, TRUE, FALSE) : id \in {"", "tu1"}}

\* The configurations: FAKE_REASONING off, or on with each handling mode
Configs ==
    {[FakeReasoningEnabled |-> FALSE, FakeReasoningHandling |-> "as_reasoning_content"]}
    \cup [FakeReasoningEnabled : {TRUE}, FakeReasoningHandling : HandlingModes]

NoToolUse == [id |-> "", name |-> "", arguments |-> <<>>]

KiroEvent(type, content, thinking, toolUse, first, last) ==
    [Type |-> type, Content |-> content, ThinkingContent |-> thinking,
     ToolUse |-> toolUse, IsFirstThinkingChunk |-> first, IsLastThinkingChunk |-> last]

NoKiroEvent == KiroEvent("none", <<>>, <<>>, NoToolUse, FALSE, FALSE)

\* processAwsEvent: the parser's event as a KiroEvent (or nil), and the
\* thinking parser after it
processAwsEvent(event, parser) ==
    CASE event.type = "content" ->
            IF parser.on
            THEN LET r == ThinkingFeed(parser, event.text) IN
                 [tp |-> r.tp,
                  kev |-> IF r.result.ThinkingContent # <<>>
                          THEN KiroEvent("thinking", <<>>, r.result.ThinkingContent,
                                         NoToolUse, r.result.IsFirstThinkingChunk,
                                         r.result.IsLastThinkingChunk)
                          ELSE IF r.result.RegularContent # <<>>
                          THEN KiroEvent("content", r.result.RegularContent, <<>>,
                                         NoToolUse, FALSE, FALSE)
                          ELSE NoKiroEvent]
            ELSE [tp |-> parser,
                  kev |-> KiroEvent("content", event.text, <<>>, NoToolUse, FALSE, FALSE)]
      [] event.type \in {"usage", "context_usage"} ->
            [tp |-> parser,
             kev |-> KiroEvent(event.type, <<>>, <<>>, NoToolUse, FALSE, FALSE)]
      [] OTHER -> [tp |-> parser, kev |-> NoKiroEvent]

\* for _, event := range parsedEvents { processAwsEvent ... }
RECURSIVE ConvertEvents(_, _, _)
ConvertEvents(evs, parser, acc) ==
    IF evs = <<>> THEN [tp |-> parser, kevs |-> acc]
    ELSE LET r == processAwsEvent(Head(evs), parser) IN
         ConvertEvents(Tail(evs), r.tp,
                       IF r.kev = NoKiroEvent THEN acc ELSE Append(acc, r.kev))

\* The events ParseKiroStream sends after the read loop: what the thinking
\* parser still holds, then the tool calls
FinalEvents(result, tcs) ==
    (IF result.ThinkingContent # <<>>
     THEN <<KiroEvent("thinking", <<>>, result.ThinkingContent, NoToolUse,
                      result.IsFirstThinkingChunk, result.IsLastThinkingChunk)>>
     ELSE <<>>)
    \o (IF result.RegularContent # <<>>
        THEN <<KiroEvent("content", result.RegularContent, <<>>, NoToolUse, FALSE, FALSE)>>
        ELSE <<>>)
    \o [i \in 1..Len(tcs) |-> KiroEvent("tool_use", <<>>, <<>>, tcs[i], FALSE, FALSE)]

\* The upstream writes an object into the response body
UpstreamWrite ==
    /\ body = "open"
    /\ produced < MaxStreamObjs
    /\ Len(wire) <= 1
    /\ produced' = produced + 1
    /\ \E o \in StreamObjs : wire' = wire \o <<HeadOf(o), TailSym>>
    /\ UNCHANGED <<psr, emitted>>
    /\ UNCHANGED <<cfg, body, thk, ppc, pending, eventsCh, errsCh, outputCh, closed, cons,
                   spc, frames, sent, readErr>>

\* The body ends, or the connection breaks
UpstreamEnd ==
    /\ body = "open"
    /\ body' \in {"eof", "error"}
    /\ UNCHANGED parserVars
    /\ UNCHANGED <<cfg, thk, ppc, pending, eventsCh, errsCh, outputCh, closed, cons,
                   spc, frames, sent, readErr>>

\* ParseKiroStream's goroutine: reader.Read, then Feed and processAwsEvent on
\* the chunk; io.EOF ends the loop (the first read: the goroutine); another
\* error is sent on errs
ProducerRead ==
    /\ ppc \in {"first", "read"}
    /\ \/ /\ wire # <<>>
          /\ \E n \in 1..Len(wire) :
              LET r == Feed(psr, SubSeq(wire, 1, n))
                  c == ConvertEvents(r.events, thk, <<>>)
              IN /\ psr' = r.p
                 /\ emitted' = emitted \o r.events
                 /\ thk' = c.tp
                 /\ pending' = c.kevs
                 /\ wire' = SubSeq(wire, n + 1, Len(wire))
          /\ ppc' = "push"
          /\ UNCHANGED <<errsCh, readErr>>
       \/ /\ wire = <<>>
          /\ body = "eof"
          /\ ppc' = IF ppc = "first" THEN "closeErrs" ELSE "finalize"
          /\ UNCHANGED <<psr, emitted, thk, pending, wire, errsCh, readErr>>
       \/ /\ wire = <<>>
          /\ body = "error"
          /\ Len(errsCh) < ErrsCap
          /\ errsCh' = Append(errsCh, IF ppc = "first" THEN "error reading first chunk"
                                  ELSE "error reading stream")
          /\ readErr' = ppc
          /\ ppc' = "closeErrs"
          /\ UNCHANGED <<psr, emitted, thk, pending, wire>>
    /\ UNCHANGED <<produced, cfg, body, eventsCh, outputCh, closed, cons, spc, frames, sent>>

\* events <- *kiroEvent, one send at a time
ProducerPush ==
    /\ ppc \in {"push", "pushfinal"}
    /\ IF pending = <<>>
       THEN /\ ppc' = IF ppc = "push" THEN "read" ELSE "closeErrs"
            /\ UNCHANGED <<pending, eventsCh, sent>>
       ELSE /\ Len(eventsCh) < EventsCap
            /\ eventsCh' = Append(eventsCh, Head(pending))
            /\ sent' = Append(sent, Head(pending))
            /\ pending' = Tail(pending)
            /\ UNCHANGED ppc
    /\ UNCHANGED parserVars
    /\ UNCHANGED <<cfg, body, thk, errsCh, outputCh, closed, cons, spc, frames, readErr>>

\* After the loop: thinkingParser.Finalize() and awsParser.GetToolCalls()
ProducerFinalize ==
    /\ ppc = "finalize"
    /\ LET f == IF thk.on THEN ThinkingFinalize(thk) ELSE [tp |-> thk, result |-> NoResult]
           p1 == finalizeToolCall(psr)
       IN /\ thk' = f.tp
          /\ psr' = p1
          /\ \E tcs \in DeduplicateToolCalls(p1.toolCalls) :
                pending' = FinalEvents(f.result, tcs)
    /\ ppc' = "pushfinal"
    /\ UNCHANGED <<wire, emitted, produced>>
    /\ UNCHANGED <<cfg, body, eventsCh, errsCh, outputCh, closed, cons, spc, frames, sent, readErr>>

\* defer close(errs): the later defer runs first
ProducerCloseErrs ==
    /\ ppc = "closeErrs"
    /\ closed' = [closed EXCEPT !.errs = TRUE]
    /\ ppc' = "closeEvents"
    /\ UNCHANGED parserVars
    /\ UNCHANGED <<cfg, body, thk, pending, eventsCh, errsCh, outputCh, cons, spc, frames,
                   sent, readErr>>

\* defer close(events)
ProducerCloseEvents ==
    /\ ppc = "closeEvents"
    /\ closed' = [closed EXCEPT !.events = TRUE]
    /\ ppc' = "done"
    /\ UNCHANGED parserVars
    /\ UNCHANGED <<cfg, body, thk, pending, eventsCh, errsCh, outputCh, cons, spc, frames,
                   sent, readErr>>

\* What a handler writes to the client
Frame(kind, text, toolUse, index, toolIndex) ==
    [kind |-> kind, text |-> text, tool |-> toolUse, index |-> index,
     toolIndex |-> toolIndex, finishReason |-> ""]

NoFrame == Frame("none", <<>>, NoToolUse, 0, 0)

\* createOpenAIFinishChunk: empty delta, finish_reason "stop"
FinishChunk(index) ==
    [Frame("finish", <<>>, NoToolUse, index, 0) EXCEPT !.finishReason = "stop"]

\* createOpenAIErrorChunk
ErrorChunk == Frame("error", <<>>, NoToolUse, 0, 0)

\* "data: [DONE]"
DoneFrame == Frame("done", <<>>, NoToolUse, 0, 0)

\* StreamToOpenAI's switch on event.Type: the chunk, if any
OpenAIChunk(event, config, chunkIndex, toolCallIndex) ==
    CASE event.Type = "content" /\ event.Content # <<>> ->
            Frame("content", event.Content, NoToolUse, chunkIndex, 0)
      [] /\ event.Type = "thinking"
         /\ event.ThinkingContent # <<>>
         /\ config.FakeReasoningHandling = "as_reasoning_content" ->
            Frame("reasoning", event.ThinkingContent, NoToolUse, chunkIndex, 0)
      [] event.Type = "tool_use" ->
            Frame("tool_call", <<>>, event.ToolUse, chunkIndex, toolCallIndex)
      [] OTHER -> NoFrame

\* StreamToOpenAI, case event, ok := <-events with ok
ConsumerEvent ==
    /\ cons.kind = "openai"
    /\ cons.pc = "select"
    /\ eventsCh # <<>>
    /\ LET event == Head(eventsCh)
           chunk == OpenAIChunk(event, cfg, cons.chunkIndex + 1, cons.toolCallIndex)
       IN /\ eventsCh' = Tail(eventsCh)
          /\ cons' = [cons EXCEPT !.chunkIndex = @ + 1,
                                  !.toolCallIndex =
                                      IF event.Type = "tool_use" THEN @ + 1 ELSE @]
          /\ IF chunk # NoFrame
             THEN /\ Len(outputCh) < OutputCap
                  /\ outputCh' = Append(outputCh, chunk)
             ELSE UNCHANGED outputCh
    /\ UNCHANGED parserVars
    /\ UNCHANGED <<cfg, body, thk, ppc, pending, errsCh, closed, spc, frames, sent, readErr>>

\* Mutant: the closed channel ends the stream without a finish chunk
ConsumerEventsClosedNoFinish ==
    /\ cons.kind = "openai"
    /\ cons.pc = "select"
    /\ eventsCh = <<>>
    /\ closed.events
    /\ cons' = [cons EXCEPT !.pc = "close"]
    /\ UNCHANGED parserVars
    /\ UNCHANGED <<cfg, body, thk, ppc, pending, eventsCh, errsCh, outputCh, closed, spc,
                   frames, sent, readErr>>

\* StreamToOpenAI, case event, ok := <-events with !ok: the finish chunk
ConsumerEventsClosed ==
    /\ cons.kind = "openai"
    /\ cons.pc = "select"
    /\ eventsCh = <<>>
    /\ closed.events
    /\ Len(outputCh) < OutputCap
    /\ outputCh' = Append(outputCh, FinishChunk(cons.chunkIndex))
    /\ cons' = [cons EXCEPT !.pc = "close"]
    /\ UNCHANGED parserVars
    /\ UNCHANGED <<cfg, body, thk, ppc, pending, eventsCh, errsCh, closed, spc, frames,
                   sent, readErr>>

\* StreamToOpenAI, case err := <-errs with an error: the error chunk
ConsumerErr ==
    /\ cons.kind = "openai"
    /\ cons.pc = "select"
    /\ errsCh # <<>>
    /\ errsCh' = Tail(errsCh)
    /\ Len(outputCh) < OutputCap
    /\ outputCh' = Append(outputCh, ErrorChunk)
    /\ cons' = [cons EXCEPT !.pc = "close"]
    /\ UNCHANGED parserVars
    /\ UNCHANGED <<cfg, body, thk, ppc, pending, eventsCh, closed, spc, frames, sent,
                   readErr>>

\* case err := <-errs on the closed, empty channel: nil, the loop goes on
\* (StreamToOpenAI and CollectStreamResult alike)
ConsumerNilErr ==
    /\ cons.pc = "select"
    /\ errsCh = <<>>
    /\ closed.errs
    /\ UNCHANGED vars

\* StreamToOpenAI: defer close(output)
ConsumerClose ==
    /\ cons.kind = "openai"
    /\ cons.pc = "close"
    /\ closed' = [closed EXCEPT !.output = TRUE]
    /\ cons' = [cons EXCEPT !.pc = "done"]
    /\ UNCHANGED parserVars
    /\ UNCHANGED <<cfg, body, thk, ppc, pending, eventsCh, errsCh, outputCh, spc, frames,
                   sent, readErr>>

\* CollectStreamResult, case event, ok := <-events with ok
CollectEvent ==
    /\ cons.kind = "collect"
    /\ cons.pc = "select"
    /\ eventsCh # <<>>
    /\ LET event == Head(eventsCh) IN
       /\ eventsCh' = Tail(eventsCh)
       /\ cons' = [cons EXCEPT
              !.Content = IF event.Type = "content" THEN @ \o event.Content ELSE @,
              !.ThinkingContent =
                  IF event.Type = "thinking" THEN @ \o event.ThinkingContent ELSE @,
              !.ToolCalls = IF event.Type = "tool_use" THEN Append(@, event.ToolUse) ELSE @]
    /\ UNCHANGED parserVars
    /\ UNCHANGED <<cfg, body, thk, ppc, pending, errsCh, outputCh, closed, spc, frames,
                   sent, readErr>>

\* CollectStreamResult, !ok: return result, nil (the texts of the model hold
\* no "[Called", so ParseBracketToolCalls returns nil)
CollectEventsClosed ==
    /\ cons.kind = "collect"
    /\ cons.pc = "select"
    /\ eventsCh = <<>>
    /\ closed.events
    /\ cons' = [cons EXCEPT !.pc = "done", !.ret = "result"]
    /\ UNCHANGED parserVars
    /\ UNCHANGED <<cfg, body, thk, ppc, pending, eventsCh, errsCh, outputCh, closed, spc,
                   frames, sent, readErr>>

\* CollectStreamResult, case err := <-errs with an error: return nil, err
CollectErr ==
    /\ cons.kind = "collect"
    /\ cons.pc = "select"
    /\ errsCh # <<>>
    /\ errsCh' = Tail(errsCh)
    /\ cons' = [cons EXCEPT !.pc = "done", !.ret = "error"]
    /\ UNCHANGED parserVars
    /\ UNCHANGED <<cfg, body, thk, ppc, pending, eventsCh, outputCh, closed, spc, frames,
                   sent, readErr>>

\* handleStreamingChatCompletion: for event := range events { write; flush }
StreamWriteFrame ==
    /\ cons.kind = "openai"
    /\ spc = "stream"
    /\ outputCh # <<>>
    /\ frames' = Append(frames, Head(outputCh))
    /\ outputCh' = Tail(outputCh)
    /\ UNCHANGED parserVars
    /\ UNCHANGED <<cfg, body, thk, ppc, pending, eventsCh, errsCh, closed, cons, spc, sent,
                   readErr>>

\* handleStreamingChatCompletion: the range loop ends, "data: [DONE]"
StreamWriteDone ==
    /\ cons.kind = "openai"
    /\ spc = "stream"
    /\ outputCh = <<>>
    /\ closed.output
    /\ frames' = Append(frames, DoneFrame)
    /\ spc' = "done"
    /\ UNCHANGED parserVars
    /\ UNCHANGED <<cfg, body, thk, ppc, pending, eventsCh, errsCh, outputCh, closed, cons,
                   sent, readErr>>

\* converter.CreateOpenAIResponse(..., result.Content, toolCalls, "stop", usage)
\* (the tool calls of the response are the consumer's ToolCalls)
CompletionResponse(content) ==
    [Frame("completion", content, NoToolUse, 0, 0) EXCEPT !.finishReason = "stop"]

\* handleNonStreamingChatCompletion after CollectStreamResult returned: the
\* completion as JSON, or 500 "Stream processing failed"
NonStreamingRespond ==
    /\ cons.kind = "collect"
    /\ spc = "stream"
    /\ cons.pc = "done"
    /\ frames' = <<IF cons.ret = "error" THEN Frame("internal_error", <<>>, NoToolUse, 0, 0)
                   ELSE CompletionResponse(cons.Content)>>
    /\ spc' = "done"
    /\ UNCHANGED parserVars
    /\ UNCHANGED <<cfg, body, thk, ppc, pending, eventsCh, errsCh, outputCh, closed, cons,
                   sent, readErr>>

NewConsumer(kind) ==
    [kind |-> kind, pc |-> "select", chunkIndex |-> 0, toolCallIndex |-> 0,
     Content |-> <<>>, ThinkingContent |-> <<>>, ToolCalls |-> <<>>, ret |-> "none"]

\* A 200 response handed to StreamToOpenAI or CollectStreamResult
StreamInit ==
    /\ cfg \in Configs
    /\ thk = IF cfg.FakeReasoningEnabled THEN NewThinkingParser(cfg.FakeReasoningHandling)
             ELSE NoThinkingParser
    /\ cons \in {NewConsumer(k) : k \in {"openai", "collect"}}
    /\ body = "open"
    /\ ppc = "first"
    /\ pending = <<>>
    /\ eventsCh = <<>>
    /\ errsCh = <<>>
    /\ outputCh = <<>>
    /\ closed = [events |-> FALSE, errs |-> FALSE, output |-> FALSE]
    /\ spc = "stream"
    /\ frames = <<>>
    /\ sent = <<>>
    /\ readErr = "none"

\* No stream is running
StreamIdle ==
    /\ cfg = [FakeReasoningEnabled |-> FALSE, FakeReasoningHandling |-> "as_reasoning_content"]
    /\ thk = NoThinkingParser
    /\ cons = [NewConsumer("none") EXCEPT !.pc = "done"]
    /\ body = "eof"
    /\ ppc = "done"
    /\ pending = <<>>
    /\ eventsCh = <<>>
    /\ errsCh = <<>>
    /\ outputCh = <<>>
    /\ closed = [events |-> TRUE, errs |-> TRUE, output |-> TRUE]
    /\ spc = "done"
    /\ frames = <<>>
    /\ sent = <<>>
    /\ readErr = "none"

StreamNext ==
    \/ UpstreamWrite /\ UNCHANGED outsideStream
    \/ UpstreamEnd /\ UNCHANGED outsideStream
    \/ ProducerRead /\ UNCHANGED outsideStream
    \/ ProducerPush /\ UNCHANGED outsideStream
    \/ ProducerFinalize /\ UNCHANGED outsideStream
    \/ ProducerCloseErrs /\ UNCHANGED outsideStream
    \/ ProducerCloseEvents /\ UNCHANGED outsideStream
    \/ ConsumerEvent /\ UNCHANGED outsideStream
    \/ ConsumerEventsClosed /\ UNCHANGED outsideStream
    \/ ConsumerErr /\ UNCHANGED outsideStream
    \/ ConsumerNilErr
    \/ ConsumerClose /\ UNCHANGED outsideStream
    \/ CollectEvent /\ UNCHANGED outsideStream
    \/ CollectEventsClosed /\ UNCHANGED outsideStream
    \/ CollectErr /\ UNCHANGED outsideStream
    \/ StreamWriteFrame /\ UNCHANGED outsideStream
    \/ StreamWriteDone /\ UNCHANGED outsideStream
    \/ NonStreamingRespond /\ UNCHANGED outsideStream

(***************************************************************************)
(* Anthropic streaming handler (package api, handleStreamingMessages)      *)
(***************************************************************************)

\* Bound: events the handler receives before the channel closes
MaxAnthEvents == 4

\* The KiroEvents ParseKiroStream can send: content and thinking events (the
\* handler also tests for empty text), tool calls with and without an id,
\* and the usage events
AnthEvents ==
    {KiroEvent("content", t, <<>>, NoToolUse, FALSE, FALSE) : t \in {<<"w">>, <<>>}}
    \cup {KiroEvent("thinking", <<>>, t, NoToolUse, FALSE, FALSE) : t \in {<<"w">>, <<>>}}
    \cup {KiroEvent("tool_use", <<>>, <<>>,
                    [id |-> id, name |-> "f", arguments |-> EmptyObject], FALSE, FALSE) :
            id \in {"", "tu1"}}
    \cup {KiroEvent("context_usage", <<>>, <<>>, NoToolUse, FALSE, FALSE)}

\* One SSE event written to the client (index -1: the event has no index)
SseEvent(event, index, kind, text) ==
    [event |-> event, index |-> index, kind |-> kind, text |-> text]

BlockStart(index, kind) == SseEvent("content_block_start", index, kind, <<>>)

BlockDelta(index, kind, text) == SseEvent("content_block_delta", index, kind, text)

BlockStop(index) == SseEvent("content_block_stop", index, "", <<>>)

\* The handler before PostStream returns
NewAnthHandler ==
    [pc |-> "start", end |-> "none", contentIndex |-> 0,
     textBlockStarted |-> FALSE, thinkingBlockStarted |-> FALSE,
     textBlockIndex |-> 0, thinkingBlockIndex |-> 0, outputTokens |-> 0,
     out |-> <<>>, handled |-> 0, lastType |-> "none"]

\* PostStream fails, the upstream status is not 200, the writer is no
\* Flusher, or the stream starts with message_start
AnthBegin ==
    /\ an.pc = "start"
    /\ \E o \in {"request_failed", "api_error", "no_flusher", "ok"} :
        an' = IF o = "ok"
              THEN [an EXCEPT !.pc = "loop",
                              !.out = <<SseEvent("message_start", -1, "", <<>>)>>]
              ELSE [an EXCEPT !.pc = "done", !.end = "refused",
                              !.out = <<SseEvent("json_error", -1, o, <<>>)>>]

\* case "content"
AnthContent(a, e) ==
    IF e.Content = <<>> THEN a
    ELSE LET a1 == IF ~a.textBlockStarted
                   THEN [a EXCEPT !.textBlockIndex = a.contentIndex,
                                  !.contentIndex = @ + 1,
                                  !.textBlockStarted = TRUE,
                                  !.out = Append(@, BlockStart(a.contentIndex, "text"))]
                   ELSE a
         IN [a1 EXCEPT !.out = Append(@, BlockDelta(a1.textBlockIndex, "text_delta",
                                                    e.Content)),
                       !.outputTokens = @ + (TextLen(e.Content) \div 4)]

\* case "thinking"
AnthThinking(a, e) ==
    IF e.ThinkingContent = <<>> THEN a
    ELSE LET a1 == IF ~a.thinkingBlockStarted
                   THEN [a EXCEPT !.thinkingBlockIndex = a.contentIndex,
                                  !.contentIndex = @ + 1,
                                  !.thinkingBlockStarted = TRUE,
                                  !.out = Append(@, BlockStart(a.contentIndex, "thinking"))]
                   ELSE a
         IN [a1 EXCEPT !.out = Append(@, BlockDelta(a1.thinkingBlockIndex,
                                                    "thinking_delta", e.ThinkingContent)),
                       !.outputTokens = @ + (TextLen(e.ThinkingContent) \div 4)]

\* The content_block_stop events for the blocks still open: thinking, then text
StopOpenBlocks(a) ==
    (IF a.thinkingBlockStarted THEN <<BlockStop(a.thinkingBlockIndex)>> ELSE <<>>)
    \o (IF a.textBlockStarted THEN <<BlockStop(a.textBlockIndex)>> ELSE <<>>)

\* Mutant: the tool call leaves the text block marked as started
AnthToolUseKeepText(a, e) ==
    [a EXCEPT !.thinkingBlockStarted = FALSE,
              !.contentIndex = @ + 1,
              !.out = @ \o StopOpenBlocks(a)
                        \o <<BlockStart(a.contentIndex, "tool_use"),
                             BlockDelta(a.contentIndex, "input_json_delta",
                                        e.ToolUse.arguments),
                             BlockStop(a.contentIndex)>>]

\* case "tool_use" (the name "f" is one byte: len(toolName) / 2 = 0)
AnthToolUse(a, e) ==
    [a EXCEPT !.thinkingBlockStarted = FALSE,
              !.textBlockStarted = FALSE,
              !.contentIndex = @ + 1,
              !.out = @ \o StopOpenBlocks(a)
                        \o <<BlockStart(a.contentIndex, "tool_use"),
                             BlockDelta(a.contentIndex, "input_json_delta",
                                        e.ToolUse.arguments),
                             BlockStop(a.contentIndex)>>]

\* The switch on event.Type
AnthHandle(a, e) ==
    CASE e.Type = "content" -> AnthContent(a, e)
      [] e.Type = "thinking" -> AnthThinking(a, e)
      [] e.Type = "tool_use" -> AnthToolUse(a, e)
      [] OTHER -> a

\* case event, ok := <-events with ok
AnthEvent ==
    /\ an.pc = "loop"
    /\ an.handled < MaxAnthEvents
    /\ \E e \in AnthEvents :
        an' = [AnthHandle(an, e) EXCEPT !.handled = @ + 1, !.lastType = e.Type]

\* Mutant: the channel's close stops the thinking block only
AnthCloseFramesThinkingOnly(a) ==
    (IF a.thinkingBlockStarted THEN <<BlockStop(a.thinkingBlockIndex)>> ELSE <<>>)
    \o <<SseEvent("message_delta", -1, "end_turn", <<>>),
         SseEvent("message_stop", -1, "", <<>>)>>

\* What the handler writes when the events channel is closed
AnthCloseFrames(a) ==
    StopOpenBlocks(a)
    \o <<SseEvent("message_delta", -1, "end_turn", <<>>),
         SseEvent("message_stop", -1, "", <<>>)>>

\* case event, ok := <-events with !ok
AnthClosed ==
    /\ an.pc = "loop"
    /\ an' = [an EXCEPT !.pc = "done", !.end = "closed",
                        !.out = @ \o AnthCloseFrames(an)]

\* case err := <-errs with an error (a nil from the closed channel changes
\* nothing)
AnthError ==
    /\ an.pc = "loop"
    /\ an' = [an EXCEPT !.pc = "done", !.end = "error",
                        !.out = Append(@, SseEvent("error", -1, "internal_error", <<>>))]

AnthInit == an = NewAnthHandler

AnthIdle == an = NoCase

AnthNext ==
    \/ AnthBegin /\ UNCHANGED outsideAnth
    \/ AnthEvent /\ UNCHANGED outsideAnth
    \/ AnthClosed /\ UNCHANGED outsideAnth
    \/ AnthError /\ UNCHANGED outsideAnth

(***************************************************************************)
(* Router and AuthMiddleware (package api)                                 *)
(***************************************************************************)

\* Bound: pieces of an Authorization header
MaxHeaderLen == 3

\* The pieces of header values and keys: "B" is the prefix "Bearer ", "k"
\* and "x" are other text
HeaderPieces == {"B", "k", "x"}

\* cfg.ProxyAPIKey: never empty (getEnvString falls back to the default)
ProxyKeys == {<<"k">>, <<"B", "k">>}

\* The routes of SetupRoutes
HealthPaths == {"/", "/health"}

V1Paths == {"/v1/models", "/v1/chat/completions", "/v1/messages"}

NewRequest(key) ==
    [pc |-> "idle", key |-> key, path |-> "", header |-> <<>>, status |-> 0,
     errType |-> "", message |-> "", ran |-> "none"]

\* Mutant: the header is compared as it is
ExtractAPIKeyNoTrim(authHeader) == authHeader

\* strings.HasPrefix / strings.TrimPrefix with "Bearer "
ExtractAPIKey(authHeader) ==
    IF authHeader # <<>> /\ Head(authHeader) = "B" THEN Tail(authHeader) ELSE authHeader

\* AuthMiddleware's function: "next", or the message of its 401
AuthDecision(path, authHeader, key) ==
    IF path \in HealthPaths THEN "next"
    ELSE IF authHeader = <<>> THEN "Missing Authorization header"
    ELSE IF ExtractAPIKey(authHeader) # key THEN "Invalid API key"
    ELSE "next"

\* A request arrives
RouterRequest ==
    /\ mw.pc = "idle"
    /\ \E path \in HealthPaths \cup V1Paths, h \in SeqsOf(HeaderPieces, 0, MaxHeaderLen) :
        mw' = [mw EXCEPT !.pc = "routed", !.path = path, !.header = h]

\* r.GET("/") and r.GET("/health"): HealthHandler, no middleware
HealthHandler ==
    /\ mw.pc = "routed"
    /\ mw.path \in HealthPaths
    /\ mw' = [mw EXCEPT !.pc = "done", !.status = 200, !.ran = "health"]

\* The v1 group: AuthMiddleware first
AuthMiddleware ==
    /\ mw.pc = "routed"
    /\ mw.path \in V1Paths
    /\ LET d == AuthDecision(mw.path, mw.header, mw.key) IN
       mw' = IF d = "next"
             THEN [mw EXCEPT !.pc = "handler"]
             ELSE [mw EXCEPT !.pc = "done", !.status = 401,
                             !.errType = "invalid_request_error", !.message = d]

\* c.Next(): the endpoint's handler
EndpointHandler ==
    /\ mw.pc = "handler"
    /\ mw' = [mw EXCEPT !.pc = "done", !.ran = mw.path]

MwInit == mw \in {NewRequest(key) : key \in ProxyKeys}

MwIdle == mw = NoCase

MwNext ==
    \/ RouterRequest /\ UNCHANGED outsideMw
    \/ HealthHandler /\ UNCHANGED outsideMw
    \/ AuthMiddleware /\ UNCHANGED outsideMw
    \/ EndpointHandler /\ UNCHANGED outsideMw

(***************************************************************************)
(* Model names (package model): NormalizeModelName, ExtractModelFamily     *)
(***************************************************************************)

\* Bound: pieces of a model name. A name is the sequence of its pieces
\* between hyphens: "claude-haiku-4-5" is <<"claude", "haiku", "4", "4">>.
MaxNameLen == 5

Families == {"haiku", "sonnet", "opus"}

\* Numbers: one of 1-2 digits, one of 3 digits, one of 8 digits (a date)
Numbers == {"4", "123", "20250101"}

\* major "." minor as one piece
Dot(a, b) ==
    CASE a = "4" /\ b = "4" -> "4.4"
      [] a = "4" /\ b = "123" -> "4.123"
      [] a = "4" /\ b = "20250101" -> "4.20250101"
      [] a = "123" /\ b = "4" -> "123.4"
      [] a = "123" /\ b = "123" -> "123.123"
      [] a = "123" /\ b = "20250101" -> "123.20250101"
      [] a = "20250101" /\ b = "4" -> "20250101.4"
      [] a = "20250101" /\ b = "123" -> "20250101.123"
      [] OTHER -> "20250101.20250101"

Dotted == {Dot(a, b) : a \in Numbers, b \in Numbers}

\* The pieces of the names given: "opusx" holds a family name without being
\* one, "high" is any other text
FirstPieces == {"claude", "Claude", "high"}

LaterPieces == Families \cup Numbers \cup {"opusx", "4.4", "latest", "high"}

ModelNames ==
    {<<>>} \cup
    {<<f>> \o r : f \in FirstPieces, r \in SeqsOf(LaterPieces, 0, MaxNameLen - 1)}

\* strings.ToLower
ToLower(name) == [i \in 1..Len(name) |-> IF name[i] = "Claude" THEN "claude" ELSE name[i]]

\* \d{1,2}, \d{8}, (?:\d{8}|latest|\d+)
IsMinor(t) == t = "4"

IsDate(t) == t = "20250101"

IsSuffix(t) == t \in Numbers \/ t = "latest"

\* NormalizeModelName
NormalizeModelName(name) ==
    LET s == ToLower(name)
        n == Len(s)
        standard ==
            /\ n \in {4, 5}
            /\ s[1] = "claude" /\ s[2] \in Families /\ s[3] \in Numbers /\ IsMinor(s[4])
            /\ n = 5 => IsSuffix(s[5])
        noMinor ==
            /\ n \in {3, 4}
            /\ s[1] = "claude" /\ s[2] \in Families /\ s[3] \in Numbers
            /\ n = 4 => IsDate(s[4])
        legacy ==
            /\ n \in {4, 5}
            /\ s[1] = "claude" /\ s[2] \in Numbers /\ s[3] \in Numbers /\ s[4] \in Families
            /\ n = 5 => IsSuffix(s[5])
        dotWithDate ==
            /\ n >= 3
            /\ s[1] = "claude"
            /\ IsDate(s[n])
            /\ \/ n = 3 /\ s[2] \in Families
               \/ n = 4 /\ s[2] \in Dotted /\ s[3] \in Families
               \/ n = 4 /\ s[2] \in Families /\ s[3] \in Dotted
               \/ n = 5 /\ s[2] \in Dotted /\ s[3] \in Families /\ s[4] \in Dotted
        inverted ==
            /\ n >= 4
            /\ s[1] = "claude" /\ s[2] \in Dotted /\ s[3] \in Families
    IN IF name = <<>> THEN name
       ELSE IF standard THEN <<s[1], s[2], Dot(s[3], s[4])>>
       ELSE IF noMinor THEN SubSeq(s, 1, 3)
       ELSE IF legacy THEN <<s[1], Dot(s[2], s[3]), s[4]>>
       ELSE IF dotWithDate THEN SubSeq(s, 1, n - 1)
       ELSE IF inverted THEN <<"claude", s[3], s[2]>>
       ELSE name

\* The family name a piece holds ("": none)
FamilyIn(t) ==
    IF t \in Families THEN t ELSE IF t = "opusx" THEN "opus" ELSE ""

\* Mutant: the last family name in the string
ExtractModelFamilyLast(modelName) ==
    LET at == {i \in 1..Len(modelName) : FamilyIn(modelName[i]) # ""}
    IN IF at = {} THEN ""
       ELSE FamilyIn(modelName[CHOOSE i \in at : \A j \in at : j <= i])

\* ExtractModelFamily: the first match of (?i)(haiku|sonnet|opus)
ExtractModelFamily(modelName) ==
    LET at == {i \in 1..Len(modelName) : FamilyIn(modelName[i]) # ""}
    IN IF at = {} THEN ""
       ELSE FamilyIn(modelName[CHOOSE i \in at : \A j \in at : i <= j])

NewNormCase(name) == [name |-> name, calls |-> 0, once |-> <<>>, twice |-> <<>>]

\* NormalizeModelName(name)
NormalizeCall ==
    /\ nm.calls = 0
    /\ nm' = [nm EXCEPT !.calls = 1, !.once = NormalizeModelName(nm.name)]

\* NormalizeModelName of the result
NormalizeAgain ==
    /\ nm.calls = 1
    /\ nm' = [nm EXCEPT !.calls = 2, !.twice = NormalizeModelName(nm.once)]

NormInit == nm \in {NewNormCase(name) : name \in ModelNames}

NormIdle == nm = NoCase

NormNext ==
    \/ NormalizeCall /\ UNCHANGED outsideNorm
    \/ NormalizeAgain /\ UNCHANGED outsideNorm

(***************************************************************************)
(* Resolver (package model): Resolve, GetAvailableModels                   *)
(***************************************************************************)

\* The names of the resolver's tables and requests, in byte order:
\* auto, auto-kiro, claude-4.4-sonnet, claude-4.4-sonnet-20250101,
\* claude-sonnet-4, claude-sonnet-4-20250101
ResolverNames ==
    <<  <<"auto">>, <<"auto", "kiro">>, <<"claude", "4.4", "sonnet">>,
        <<"claude", "4.4", "sonnet", "20250101">>, <<"claude", "sonnet", "4">>,
        <<"claude", "sonnet", "4", "20250101">>  >>

\* Internal ids of hidden models
InternalIDs == {<<"CLAUDE_4_4_SONNET_V1_0">>}

SetOfNames == {ResolverNames[i] : i \in DOMAIN ResolverNames}

\* Tables: every function from a subset of keys to vals
TablesOf(keys, vals) == UNION {[d -> vals] : d \in SUBSET keys}

\* sort.Strings on a set of names
SortStrings(names) ==
    LET at == {i \in DOMAIN ResolverNames : ResolverNames[i] \in names}
        nth[k \in 0..Cardinality(at)] ==
            IF k = 0 THEN 0
            ELSE CHOOSE i \in at : i > nth[k - 1] /\ \A j \in at : j > nth[k - 1] => i <= j
    IN [k \in 1..Cardinality(at) |-> ResolverNames[nth[k]]]

NoResolution ==
    [InternalID |-> <<>>, Source |-> "", OriginalRequest |-> <<>>, Normalized |-> <<>>,
     IsVerified |-> FALSE]

\* NewResolver
NewResolver(cache, hiddenModels, aliases, hiddenFromList) ==
    [cache |-> cache, hiddenModels |-> hiddenModels, aliases |-> aliases,
     hiddenFromList |-> hiddenFromList,
     op |-> "", res |-> NoResolution, models |-> <<>>]

\* Mutant: the hidden table is looked up before the cache
ResolveHiddenFirst(r, externalModel) ==
    LET resolvedModel ==
            IF externalModel \in DOMAIN r.aliases THEN r.aliases[externalModel]
            ELSE externalModel
        normalized == NormalizeModelName(resolvedModel)
    IN IF normalized \in DOMAIN r.hiddenModels
       THEN [InternalID |-> r.hiddenModels[normalized], Source |-> "hidden",
             OriginalRequest |-> externalModel, Normalized |-> normalized,
             IsVerified |-> TRUE]
       ELSE IF normalized \in r.cache
       THEN [InternalID |-> normalized, Source |-> "cache",
             OriginalRequest |-> externalModel, Normalized |-> normalized,
             IsVerified |-> TRUE]
       ELSE [InternalID |-> normalized, Source |-> "passthrough",
             OriginalRequest |-> externalModel, Normalized |-> normalized,
             IsVerified |-> FALSE]

\* Resolver.Resolve
Resolve(r, externalModel) ==
    LET resolvedModel ==
            IF externalModel \in DOMAIN r.aliases THEN r.aliases[externalModel]
            ELSE externalModel
        normalized == NormalizeModelName(resolvedModel)
    IN IF normalized \in r.cache
       THEN [InternalID |-> normalized, Source |-> "cache",
             OriginalRequest |-> externalModel, Normalized |-> normalized,
             IsVerified |-> TRUE]
       ELSE IF normalized \in DOMAIN r.hiddenModels
       THEN [InternalID |-> r.hiddenModels[normalized], Source |-> "hidden",
             OriginalRequest |-> externalModel, Normalized |-> normalized,
             IsVerified |-> TRUE]
       ELSE [InternalID |-> normalized, Source |-> "passthrough",
             OriginalRequest |-> externalModel, Normalized |-> normalized,
             IsVerified |-> FALSE]

\* Resolver.GetAvailableModels
GetAvailableModels(r) ==
    LET fromCache == {id \in r.cache : id \notin r.hiddenFromList}
        fromHidden == {d \in DOMAIN r.hiddenModels : d \notin r.hiddenFromList}
        fromAliases == DOMAIN r.aliases
    IN SortStrings(fromCache \cup fromHidden \cup fromAliases)

\* A call of Resolve
ResolveCall ==
    \E externalModel \in SetOfNames :
        rv' = [rv EXCEPT !.op = "resolve", !.res = Resolve(rv, externalModel)]

\* A call of GetAvailableModels
GetAvailableModelsCall ==
    rv' = [rv EXCEPT !.op = "list", !.models = GetAvailableModels(rv)]

ResolverInit ==
    rv \in {NewResolver(cache, hiddenModels, aliases, hiddenFromList) :
               cache \in SUBSET {ResolverNames[1], ResolverNames[3], ResolverNames[5]},
               hiddenModels \in TablesOf({ResolverNames[1], ResolverNames[3]}, InternalIDs),
               aliases \in TablesOf({ResolverNames[1], ResolverNames[2]},
                                    {ResolverNames[1], ResolverNames[6]}),
               hiddenFromList \in SUBSET {ResolverNames[1], ResolverNames[5]}}

ResolverIdle == rv = NoCase

ResolverNext ==
    \/ ResolveCall /\ UNCHANGED outsideResolver
    \/ GetAvailableModelsCall /\ UNCHANGED outsideResolver

(***************************************************************************)
(* The wait for the first chunk (ParseKiroStream, package stream)          *)
(***************************************************************************)

\* cfg.FirstTokenTimeout: 15 s, in units of 15 s
FirstTokenTimeout == 1

\* cfg.StreamingReadTimeout: 300 s, in units of 15 s; the http.Client's Timeout
StreamingReadTimeout == 20

\* What the upstream does after the response headers: its first bytes or
\* the end of the body at a time, or nothing
UpstreamPlans ==
    [what : {"bytes", "eof"}, at : 0..StreamingReadTimeout] \cup
    {[what |-> "silent", at |-> StreamingReadTimeout]}

\* ParseKiroStream has been called on a 200 response of the one request made
NewFirstRead(plan) ==
    [plan |-> plan, pc |-> "reading", waited |-> 0, err |-> "", requests |-> 1]

\* Time passes while reader.Read(firstChunk) blocks
FirstReadWait ==
    /\ ft.pc = "reading"
    /\ ft.waited < StreamingReadTimeout
    /\ ft.plan.what = "silent" \/ ft.waited < ft.plan.at
    /\ ft' = [ft EXCEPT !.waited = @ + 1]

\* reader.Read returns the first bytes
FirstChunkRead ==
    /\ ft.pc = "reading"
    /\ ft.plan.what = "bytes" /\ ft.waited = ft.plan.at
    /\ ft' = [ft EXCEPT !.pc = "streaming"]

\* reader.Read returns io.EOF: the goroutine returns
FirstChunkEOF ==
    /\ ft.pc = "reading"
    /\ ft.plan.what = "eof" /\ ft.waited = ft.plan.at
    /\ ft' = [ft EXCEPT !.pc = "closed"]

\* The client's Timeout cancels the body: reader.Read returns an error
FirstChunkError ==
    /\ ft.pc = "reading"
    /\ ft.plan.what = "silent" /\ ft.waited = StreamingReadTimeout
    /\ ft' = [ft EXCEPT !.pc = "failed", !.err = "error reading first chunk"]

FirstInit == ft \in {NewFirstRead(plan) : plan \in UpstreamPlans}

FirstIdle == ft = NoCase

FirstNext ==
    \/ FirstReadWait /\ UNCHANGED outsideFirst
    \/ FirstChunkRead /\ UNCHANGED outsideFirst
    \/ FirstChunkEOF /\ UNCHANGED outsideFirst
    \/ FirstChunkError /\ UNCHANGED outsideFirst

(***************************************************************************)
(* A client that goes away during a streamed response (package api)        *)
(***************************************************************************)

\* Bound: chunks the upstream still has to send
MaxCancelChunks == 4

\* Bound: events waiting between the producer and the handler
MaxCancelQueue == 2

\* The handlers give PostStream context.Background(), which is never
\* cancelled; the request's own context is not passed on
StreamingHandlers == {"handleStreamingChatCompletion", "handleStreamingMessages"}

\* The handler has received a 200 response and started the producer
NewCancelCase(handler, chunks) ==
    [handler |-> handler, ctx |-> "background", left |-> chunks,
     clientGone |-> FALSE, bodyClosed |-> FALSE,
     ppc |-> "reading", hpc |-> "loop", queue |-> 0, written |-> 0,
     readsAfterCancel |-> 0]

\* The client cancels its request: the request's context is done
ClientCancel ==
    /\ ~cn.clientGone
    /\ cn.hpc = "loop"
    /\ cn' = [cn EXCEPT !.clientGone = TRUE]

\* ParseKiroStream: reader.Read returns a chunk, its event is sent
CancelProducerRead ==
    /\ cn.ppc = "reading"
    /\ cn.left > 0
    /\ cn.queue < MaxCancelQueue
    /\ cn' = [cn EXCEPT !.left = @ - 1, !.queue = @ + 1,
                        !.readsAfterCancel = IF cn.clientGone THEN @ + 1 ELSE @]

\* ParseKiroStream: reader.Read returns io.EOF, the channels are closed
CancelProducerEOF ==
    /\ cn.ppc = "reading"
    /\ cn.left = 0
    /\ cn' = [cn EXCEPT !.ppc = "done"]

\* The handler's loop takes an event and writes it; the result of the write
\* is not looked at
CancelHandlerWrite ==
    /\ cn.hpc = "loop"
    /\ cn.queue > 0
    /\ cn' = [cn EXCEPT !.queue = @ - 1, !.written = @ + 1]

\* The handler's loop ends on the closed channel; defer resp.Body.Close()
CancelHandlerReturn ==
    /\ cn.hpc = "loop"
    /\ cn.queue = 0 /\ cn.ppc = "done"
    /\ cn' = [cn EXCEPT !.hpc = "returned", !.bodyClosed = TRUE]

CancelInit ==
    cn \in {NewCancelCase(handler, chunks) :
               handler \in StreamingHandlers, chunks \in 0..MaxCancelChunks}

CancelIdle == cn = NoCase

CancelNext ==
    \/ ClientCancel /\ UNCHANGED outsideCancel
    \/ CancelProducerRead /\ UNCHANGED outsideCancel
    \/ CancelProducerEOF /\ UNCHANGED outsideCancel
    \/ CancelHandlerWrite /\ UNCHANGED outsideCancel
    \/ CancelHandlerReturn /\ UNCHANGED outsideCancel

(***************************************************************************)
(* One tool call, event by event (package parser)                          *)
(***************************************************************************)

\* Bound: input events between the name event and the stop event
MaxInputs == 2

\* {"name":..,"toolUseId":..,"input":..}: a name event
NameObjs ==
    {Obj("tool_start", <<>>, FALSE, id, i, FALSE, FALSE) :
        id \in {"", "tu1"},
        i \in {NoInput, StrInput(<<"{", "b">>), ObjInput(<<"{", "b", ",", "a", "}">>)}}

\* {"input":..}: an input event
InputObjs == {Obj("tool_input", <<>>, FALSE, "", i, FALSE, FALSE) : i \in InputValues}

\* {"stop":true}
StopObj == Obj("tool_stop", <<>>, FALSE, "", NoInput, TRUE, FALSE)

\* The events given to a new parser: a name event, input events and the stop
\* event, or input and stop events alone
ToolRuns ==
    {<<n>> \o ins \o <<StopObj>> : n \in NameObjs, ins \in SeqsOf(InputObjs, 0, MaxInputs)}
    \cup SeqsOf(InputObjs \cup {StopObj}, 1, MaxInputs)

NewToolCase(objs) == [objs |-> objs, done |-> 0, p |-> NewParser, collected |-> <<>>]

\* Feed parses the next object and hands it to processEvent
ToolEventStep ==
    /\ tl.done < Len(tl.objs)
    /\ tl' = [tl EXCEPT !.done = @ + 1,
                        !.p = processEvent(tl.p, tl.objs[tl.done + 1]).p]

\* GetToolCalls after the last object
ToolGetToolCalls ==
    /\ tl.done = Len(tl.objs)
    /\ tl.collected = <<>>
    /\ LET p1 == finalizeToolCall(tl.p) IN
       /\ p1.toolCalls # <<>>
       /\ \E tcs \in DeduplicateToolCalls(p1.toolCalls) :
            tl' = [tl EXCEPT !.p = p1, !.collected = tcs]

ToolInit == tl \in {NewToolCase(objs) : objs \in ToolRuns}

ToolIdle == tl = NoCase

ToolNext ==
    \/ ToolEventStep /\ UNCHANGED outsideTool
    \/ ToolGetToolCalls /\ UNCHANGED outsideTool

(***************************************************************************)
(* DeduplicateToolCalls on every bounded list (package parser)             *)
(***************************************************************************)

\* Bound: tool calls in the list given to DeduplicateToolCalls
MaxDedupCalls == 3

\* The tool calls of the lists: with and without id, two names, arguments
\* "{}", two of equal length and a longer one
DedupCalls ==
    [id : {"", "1", "2"}, name : {"f", "g"},
     arguments : {EmptyObject, <<"{", "a", "}">>, <<"{", "b", "}">>,
                  <<"{", "a", ",", "b", "}">>}]

NewDedupCase(toolCalls) == [toolCalls |-> toolCalls, called |-> FALSE, result |-> <<>>]

\* DeduplicateToolCalls(toolCalls)
DedupCall ==
    /\ ~dd.called
    /\ \E result \in DeduplicateToolCalls(dd.toolCalls) :
          dd' = [dd EXCEPT !.called = TRUE, !.result = result]

DedupInit ==
    dd \in {NewDedupCase(toolCalls) : toolCalls \in SeqsOf(DedupCalls, 0, MaxDedupCalls)}

DedupIdle == dd = NoCase

DedupNext == DedupCall /\ UNCHANGED outsideDedup

(***************************************************************************)
(* AwsEventStreamParser.Feed byte by byte (package parser)                 *)
(***************************************************************************)

\* Bound: objects and runs of other bytes in the stream
MaxPieces == 2

\* Bytes: braces, the quote Q, the backslash, the colon, the key names c
\* (content), n (name) and s (stop), t (true) and w (any other byte)
Quote == "Q"
Backslash == "\\"

\* {"content":  {"name":  {"stop":  (three of Feed's six patterns)
BytePatterns ==
    {[pattern |-> <<"{", Quote, "c", Quote, ":">>, t |-> "content"],
     [pattern |-> <<"{", Quote, "n", Quote, ":">>, t |-> "tool_start"],
     [pattern |-> <<"{", Quote, "s", Quote, ":">>, t |-> "tool_stop"]}

\* {"content":"w"}  {"content":"}"}  {"content":"\""}  {"content":"\\"}
\* {"name":"w"}  {"stop":true}
ContentW == <<"{", Quote, "c", Quote, ":", Quote, "w", Quote, "}">>
ContentBrace == <<"{", Quote, "c", Quote, ":", Quote, "}", Quote, "}">>
ContentQuote == <<"{", Quote, "c", Quote, ":", Quote, Backslash, Quote, Quote, "}">>
ContentBackslash == <<"{", Quote, "c", Quote, ":", Quote, Backslash, Backslash, Quote, "}">>
NameW == <<"{", Quote, "n", Quote, ":", Quote, "w", Quote, "}">>
StopTrue == <<"{", Quote, "s", Quote, ":", "t", "}">>

\* The pieces of the streams: the objects, an object cut short, and bytes
\* that start no pattern
StreamPieces ==
    {ContentW, ContentBrace, ContentQuote, ContentBackslash, NameW, StopTrue,
     SubSeq(ContentW, 1, 7), <<"w">>, <<"{">>, <<"}", Quote>>}

RECURSIVE Concat(_)
Concat(ss) == IF ss = <<>> THEN <<>> ELSE Head(ss) \o Concat(Tail(ss))

ByteStreams == {Concat(ss) : ss \in SeqsOf(StreamPieces, 1, MaxPieces)}

\* strings.Index for each pattern, the earliest kept (0: none)
StartsAt(buf, pat, i) ==
    /\ i + Len(pat) - 1 <= Len(buf)
    /\ SubSeq(buf, i, i + Len(pat) - 1) = pat

EarliestPattern(buf) ==
    LET at == {i \in 1..Len(buf) : \E bp \in BytePatterns : StartsAt(buf, bp.pattern, i)}
    IN IF at = {} THEN [pos |-> 0, t |-> "none"]
       ELSE LET pos == CHOOSE i \in at : \A j \in at : i <= j
            IN [pos |-> pos,
                t |-> (CHOOSE bp \in BytePatterns : StartsAt(buf, bp.pattern, pos)).t]

\* The for loop of FindMatchingBrace, from byte i on
RECURSIVE BraceScan(_, _, _, _, _)
BraceScan(text, i, braceCount, inString, escapeNext) ==
    IF i > Len(text) THEN 0
    ELSE LET char == text[i] IN
         IF escapeNext THEN BraceScan(text, i + 1, braceCount, inString, FALSE)
         ELSE IF char = Backslash /\ inString
              THEN BraceScan(text, i + 1, braceCount, inString, TRUE)
         ELSE IF char = Quote THEN BraceScan(text, i + 1, braceCount, ~inString, FALSE)
         ELSE IF inString THEN BraceScan(text, i + 1, braceCount, inString, FALSE)
         ELSE IF char = "{" THEN BraceScan(text, i + 1, braceCount + 1, inString, FALSE)
         ELSE IF char = "}"
              THEN (IF braceCount = 1 THEN i
                    ELSE BraceScan(text, i + 1, braceCount - 1, inString, FALSE))
         ELSE BraceScan(text, i + 1, braceCount, inString, FALSE)

\* FindMatchingBrace on bytes (0: no closing brace)
FindMatchingBraceBytes(text, startPos) ==
    IF startPos > Len(text) \/ text[startPos] # "{" THEN 0
    ELSE BraceScan(text, startPos, 0, FALSE, FALSE)

\* json.Unmarshal of the object's text into the struct of its type
Unmarshal(jsonStr, t) ==
    CASE jsonStr = ContentW -> Obj("content", <<"w">>, FALSE, "", NoInput, FALSE, FALSE)
      [] jsonStr = ContentBrace -> Obj("content", <<"}">>, FALSE, "", NoInput, FALSE, FALSE)
      [] jsonStr = ContentQuote -> Obj("content", <<Quote>>, FALSE, "", NoInput, FALSE, FALSE)
      [] jsonStr = ContentBackslash ->
            Obj("content", <<Backslash>>, FALSE, "", NoInput, FALSE, FALSE)
      [] jsonStr = NameW -> Obj("tool_start", <<>>, FALSE, "", NoInput, FALSE, FALSE)
      [] jsonStr = StopTrue -> Obj("tool_stop", <<>>, FALSE, "", NoInput, TRUE, FALSE)
      [] OTHER -> Obj(t, <<>>, FALSE, "", NoInput, FALSE, TRUE)

\* Mutant: a buffer in which no pattern is found is thrown away
RECURSIVE FeedLoopBytesDrop(_, _)
FeedLoopBytesDrop(p, events) ==
    LET e == EarliestPattern(p.buffer)
        jsonEnd == FindMatchingBraceBytes(p.buffer, e.pos)
    IN IF e.pos = 0 THEN [p |-> [p EXCEPT !.buffer = <<>>], events |-> events]
       ELSE IF jsonEnd = 0 THEN [p |-> p, events |-> events]
       ELSE LET r == processEvent(
                        [p EXCEPT !.buffer = SubSeq(@, jsonEnd + 1, Len(@))],
                        Unmarshal(SubSeq(p.buffer, e.pos, jsonEnd), e.t))
            IN FeedLoopBytesDrop(r.p, IF r.ev = NoEvent THEN events ELSE Append(events, r.ev))

\* The for loop of Feed on bytes
RECURSIVE FeedLoopBytes(_, _)
FeedLoopBytes(p, events) ==
    LET e == EarliestPattern(p.buffer)
        jsonEnd == FindMatchingBraceBytes(p.buffer, e.pos)
    IN IF e.pos = 0 \/ jsonEnd = 0 THEN [p |-> p, events |-> events]
       ELSE LET r == processEvent(
                        [p EXCEPT !.buffer = SubSeq(@, jsonEnd + 1, Len(@))],
                        Unmarshal(SubSeq(p.buffer, e.pos, jsonEnd), e.t))
            IN FeedLoopBytes(r.p, IF r.ev = NoEvent THEN events ELSE Append(events, r.ev))

\* Feed(chunk) on bytes
FeedBytes(p, chunk) == FeedLoopBytes([p EXCEPT !.buffer = @ \o chunk], <<>>)

NewByteCase(stream) ==
    [stream |-> stream, fed |-> 0, p |-> NewParser, events |-> <<>>,
     got |-> FALSE, toolCalls |-> <<>>]

\* The reader passes the next bytes, however many, to Feed
FeedBytesChunk ==
    /\ ~by.got
    /\ \E n \in 1..(Len(by.stream) - by.fed) :
          LET r == FeedBytes(by.p, SubSeq(by.stream, by.fed + 1, by.fed + n)) IN
          by' = [by EXCEPT !.fed = @ + n, !.p = r.p, !.events = @ \o r.events]

\* GetToolCalls at the end of the stream
BytesGetToolCalls ==
    /\ ~by.got
    /\ by.fed = Len(by.stream)
    /\ LET p1 == finalizeToolCall(by.p) IN
       \E tcs \in DeduplicateToolCalls(p1.toolCalls) :
          by' = [by EXCEPT !.got = TRUE, !.p = p1, !.toolCalls = tcs]

BytesInit == by \in {NewByteCase(stream) : stream \in ByteStreams}

BytesIdle == by = NoCase

BytesNext ==
    \/ FeedBytesChunk /\ UNCHANGED outsideBytes
    \/ BytesGetToolCalls /\ UNCHANGED outsideBytes

(***************************************************************************)
(* The end of a streamed response: ParseKiroStream's goroutine and the     *)
(* loops that drain its channels (packages stream and api)                 *)
(***************************************************************************)

\* Bound: chunks the upstream sends before EOF or a read error
MaxDrainChunks == 2

\* Bound: events one chunk (or the finalization) yields
MaxDrainEvents == 2

\* Bound: capacity of the events channel (make(chan KiroEvent, 100)), scaled
\* down so that the producer meets a full channel
DrainEventsCap == 2

\* Bound: capacity of the output channel (make(chan string, 100)), scaled
DrainOutputCap == 1

\* The loops that select on ParseKiroStream's two channels
DrainConsumers == {"StreamToOpenAI", "handleStreamingMessages", "CollectStreamResult"}

\* An event that makes StreamToOpenAI send a chunk, and one that does not
DrainEventKinds == {"content", "usage"}

DrainBatches == UNION {[1..n -> DrainEventKinds] : n \in 0..MaxDrainEvents}

\* ParseKiroStream has made its channels and started its goroutine; the
\* consumer is at its select; handleStreamingChatCompletion ranges over the
\* output of StreamToOpenAI, the other two consumers have no reader behind
NewDrainCase(consumer) ==
    [consumer |-> consumer, reads |-> 0, ppc |-> "read", topush |-> <<>>,
     events |-> <<>>, errs |-> 0, errsClosed |-> FALSE, eventsClosed |-> FALSE,
     cpc |-> "select", out |-> "none", output |-> <<>>, outputClosed |-> FALSE,
     hpc |-> IF consumer = "StreamToOpenAI" THEN "range" ELSE "none",
     terminal |-> "none", blocked |-> FALSE, spun |-> FALSE]

\* reader.Read returns a chunk; awsParser.Feed yields its events
DrainRead ==
    /\ dr.ppc = "read"
    /\ dr.reads < MaxDrainChunks
    /\ \E evs \in DrainBatches :
          dr' = [dr EXCEPT !.reads = @ + 1, !.topush = evs,
                           !.ppc = IF evs = <<>> THEN "read" ELSE "push"]

\* reader.Read returns io.EOF: the first read returns at once, a later one
\* breaks the loop; then Finalize's events and the tool calls are sent
DrainReadEOF ==
    /\ dr.ppc = "read"
    /\ \E evs \in DrainBatches :
          /\ dr.reads = 0 => evs = <<>>
          /\ dr' = [dr EXCEPT !.topush = evs,
                              !.ppc = IF evs = <<>> THEN "closeErrs" ELSE "final"]

\* reader.Read returns another error: errs <- err (capacity 1, one send), return
DrainReadError ==
    /\ dr.ppc = "read"
    /\ dr' = [dr EXCEPT !.errs = 1, !.ppc = "closeErrs"]

\* events <- *kiroEvent: blocks while the channel is full
DrainPush ==
    /\ dr.ppc \in {"push", "final"}
    /\ dr.topush # <<>>
    /\ Len(dr.events) < DrainEventsCap
    /\ dr' = [dr EXCEPT !.events = Append(@, Head(dr.topush)),
                        !.topush = Tail(@),
                        !.ppc = IF Tail(dr.topush) # <<>> THEN @
                                ELSE IF @ = "push" THEN "read" ELSE "closeErrs"]

\* The goroutine returns: defer close(errs) runs first
DrainCloseErrs ==
    /\ dr.ppc = "closeErrs"
    /\ dr' = [dr EXCEPT !.errsClosed = TRUE, !.ppc = "closeEvents"]

\* Mutant: the goroutine ends without closing events
DrainCloseEventsSkipped ==
    /\ dr.ppc = "closeEvents"
    /\ dr' = [dr EXCEPT !.ppc = "done"]

\* defer close(events) runs last; the goroutine is gone
DrainCloseEvents ==
    /\ dr.ppc = "closeEvents"
    /\ dr' = [dr EXCEPT !.eventsClosed = TRUE, !.ppc = "done"]

\* case event, ok := <-events with ok: StreamToOpenAI has a chunk to send for
\* a content event, the other loops write or collect on the spot
DrainRecvEvent ==
    /\ dr.cpc = "select"
    /\ dr.events # <<>>
    /\ dr' = [dr EXCEPT
          !.events = Tail(@),
          !.blocked = @ \/ (Len(dr.events) = DrainEventsCap /\ dr.topush # <<>>),
          !.cpc = IF dr.consumer = "StreamToOpenAI" /\ Head(dr.events) = "content"
                  THEN "send" ELSE @,
          !.out = IF dr.consumer = "StreamToOpenAI" /\ Head(dr.events) = "content"
                  THEN "chunk" ELSE @]

\* case event, ok := <-events with !ok: the finish chunk, message_stop, or
\* return result, nil
DrainRecvClosed ==
    /\ dr.cpc = "select"
    /\ dr.events = <<>>
    /\ dr.eventsClosed
    /\ dr' = CASE dr.consumer = "StreamToOpenAI" ->
                    [dr EXCEPT !.cpc = "send", !.out = "finish"]
               [] dr.consumer = "handleStreamingMessages" ->
                    [dr EXCEPT !.cpc = "done", !.terminal = "message_stop"]
               [] OTHER ->
                    [dr EXCEPT !.cpc = "done", !.terminal = "result"]

\* case err := <-errs with err != nil: the error chunk, the error event, or
\* return nil, err
DrainRecvErr ==
    /\ dr.cpc = "select"
    /\ dr.errs = 1
    /\ dr' = CASE dr.consumer = "StreamToOpenAI" ->
                    [dr EXCEPT !.errs = 0, !.cpc = "send", !.out = "error"]
               [] OTHER ->
                    [dr EXCEPT !.errs = 0, !.cpc = "done", !.terminal = "error"]

\* case err := <-errs on the closed, empty channel: nil, the loop goes round
DrainRecvNil ==
    /\ dr.cpc = "select"
    /\ dr.errs = 0
    /\ dr.errsClosed
    /\ dr' = [dr EXCEPT !.spun = TRUE]

\* StreamToOpenAI: output <- formatSSE(chunk), blocks while output is full;
\* after the finish or the error chunk the goroutine returns
DrainSend ==
    /\ dr.cpc = "send"
    /\ Len(dr.output) < DrainOutputCap
    /\ dr' = [dr EXCEPT !.output = Append(@, dr.out), !.out = "none",
                        !.cpc = IF dr.out = "chunk" THEN "select" ELSE "close"]

\* StreamToOpenAI: defer close(output)
DrainCloseOutput ==
    /\ dr.cpc = "close"
    /\ dr' = [dr EXCEPT !.outputClosed = TRUE, !.cpc = "done"]

\* handleStreamingChatCompletion: for event := range events { write; flush }
DrainHandlerWrite ==
    /\ dr.hpc = "range"
    /\ dr.output # <<>>
    /\ dr' = [dr EXCEPT !.output = Tail(@),
                        !.terminal = IF Head(dr.output) = "chunk" THEN @
                                     ELSE Head(dr.output)]

\* handleStreamingChatCompletion: the range ends on the closed channel,
\* "data: [DONE]" is written
DrainHandlerDone ==
    /\ dr.hpc = "range"
    /\ dr.output = <<>>
    /\ dr.outputClosed
    /\ dr' = [dr EXCEPT !.hpc = "done"]

DrainInit ==
    dr \in {NewDrainCase(consumer) : consumer \in DrainConsumers}

DrainIdle == dr = NoCase

\* The goroutine started by ParseKiroStream
DrainProducer ==
    \/ DrainRead
    \/ DrainReadEOF
    \/ DrainReadError
    \/ DrainPush
    \/ DrainCloseErrs
    \/ DrainCloseEvents

DrainNext ==
    \/ DrainRead /\ UNCHANGED outsideDrain
    \/ DrainReadEOF /\ UNCHANGED outsideDrain
    \/ DrainReadError /\ UNCHANGED outsideDrain
    \/ DrainPush /\ UNCHANGED outsideDrain
    \/ DrainCloseErrs /\ UNCHANGED outsideDrain
    \/ DrainCloseEvents /\ UNCHANGED outsideDrain
    \/ DrainRecvEvent /\ UNCHANGED outsideDrain
    \/ DrainRecvClosed /\ UNCHANGED outsideDrain
    \/ DrainRecvErr /\ UNCHANGED outsideDrain
    \/ DrainRecvNil /\ UNCHANGED outsideDrain
    \/ DrainSend /\ UNCHANGED outsideDrain
    \/ DrainCloseOutput /\ UNCHANGED outsideDrain
    \/ DrainHandlerWrite /\ UNCHANGED outsideDrain
    \/ DrainHandlerDone /\ UNCHANGED outsideDrain

\* The goroutines are scheduled, every ready case of a select is chosen in
\* the end, and the client keeps reading
DrainFairness ==
    /\ WF_vars(DrainProducer /\ UNCHANGED outsideDrain)
    /\ WF_vars(DrainRecvEvent /\ UNCHANGED outsideDrain)
    /\ WF_vars(DrainRecvClosed /\ UNCHANGED outsideDrain)
    /\ WF_vars(DrainRecvErr /\ UNCHANGED outsideDrain)
    /\ WF_vars(DrainSend /\ UNCHANGED outsideDrain)
    /\ WF_vars(DrainCloseOutput /\ UNCHANGED outsideDrain)
    /\ WF_vars(DrainHandlerWrite /\ UNCHANGED outsideDrain)
    /\ WF_vars(DrainHandlerDone /\ UNCHANGED outsideDrain)

(***************************************************************************)
(* Specifications                                                          *)
(***************************************************************************)

\* The variables of a subsystem that is not running
AuthIdle ==
    /\ m = [accessToken |-> Empty, refreshToken |-> Empty, profileArn |-> Empty,
            expiresAt |-> ZeroTime, sqliteDB |-> FALSE, authType |-> "kiro_desktop"]
    /\ store = [accessToken |-> Empty, refreshToken |-> Empty, profileArn |-> Empty,
                expiresAt |-> ZeroTime, writable |-> FALSE]
    /\ mu = "free"
    /\ now = StartTime
    /\ issued = 0
    /\ extWrites = 0
    /\ acall = [p \in Callers |-> IdleCall]

ShaperIdle ==
    /\ shInput = [msgs |-> <<>>, systemPrompt |-> <<>>, hasTools |-> FALSE]
    /\ messages = <<>>
    /\ shStage = "done"
    /\ payload = NoPayload("none")

ReadIdle == arnRead = NoRead

\* BuildKiroPayload on every bounded input
ShaperStart == ShaperInit /\ AuthIdle /\ ReadIdle /\ RetryInit /\ ParserInit /\ StreamIdle /\ ThinkIdle /\ AnthIdle /\ MwIdle /\ NormIdle /\ ResolverIdle /\ FirstIdle /\ CancelIdle /\ ToolIdle /\ DedupIdle /\ BytesIdle /\ DrainIdle

SpecShaper == ShaperStart /\ [][ShaperNext]_vars

\* One streaming chat request: RequestWithRetry with the token manager, then
\* the handler's write loop
RetryStart ==
    ShaperIdle /\ AuthInit /\ store.writable /\ ReadIdle /\ RetryInit /\ ParserInit /\ StreamIdle /\ ThinkIdle /\ AnthIdle /\ MwIdle /\ NormIdle /\ ResolverIdle /\ FirstIdle /\ CancelIdle /\ ToolIdle /\ DedupIdle /\ BytesIdle /\ DrainIdle

ParserStart == ShaperIdle /\ AuthIdle /\ ReadIdle /\ RetryInit /\ ParserInit /\ StreamIdle /\ ThinkIdle /\ AnthIdle /\ MwIdle /\ NormIdle /\ ResolverIdle /\ FirstIdle /\ CancelIdle /\ ToolIdle /\ DedupIdle /\ BytesIdle /\ DrainIdle

\* One parser fed the upstream's bytes in chunks of every size
SpecParser == ParserStart /\ [][ParserNext]_vars

StreamStart == ShaperIdle /\ AuthIdle /\ ReadIdle /\ RetryInit /\ ParserInit /\ StreamInit /\ ThinkIdle /\ AnthIdle /\ MwIdle /\ NormIdle /\ ResolverIdle /\ FirstIdle /\ CancelIdle /\ ToolIdle /\ DedupIdle /\ BytesIdle /\ DrainIdle

\* One 200 response: the upstream, ParseKiroStream's goroutine, the consumer
\* and the handler, in every interleaving
SpecStream == StreamStart /\ [][StreamNext]_vars

SpecRetry == RetryStart /\ [][RetryNext]_vars

AuthStart == ShaperIdle /\ AuthInit /\ ReadIdle /\ RetryInit /\ ParserInit /\ StreamIdle /\ ThinkIdle /\ AnthIdle /\ MwIdle /\ NormIdle /\ ResolverIdle /\ FirstIdle /\ CancelIdle /\ ToolIdle /\ DedupIdle /\ BytesIdle /\ DrainIdle

\* The token manager under concurrent GetAccessToken and ForceRefresh
\* callers, with time passing and the KV row rewritten from outside
SpecAuth == AuthStart /\ [][AuthNext]_vars

ReadStart == ShaperIdle /\ AuthInit /\ ReadIdle /\ RetryInit /\ ParserInit /\ StreamIdle /\ ThinkIdle /\ AnthIdle /\ MwIdle /\ NormIdle /\ ResolverIdle /\ FirstIdle /\ CancelIdle /\ ToolIdle /\ DedupIdle /\ BytesIdle /\ DrainIdle

\* ProfileArn() called while another goroutine uses the manager
SpecRead == ReadStart /\ [][ReadNext]_vars

ThinkNext ==
    \/ ThinkFeedCall /\ UNCHANGED outsideThinking
    \/ ThinkFinalizeCall /\ UNCHANGED outsideThinking

ThinkStart == ShaperIdle /\ AuthIdle /\ ReadIdle /\ RetryInit /\ ParserInit /\ StreamIdle /\ ThinkInit /\ AnthIdle /\ MwIdle /\ NormIdle /\ ResolverIdle /\ FirstIdle /\ CancelIdle /\ ToolIdle /\ DedupIdle /\ BytesIdle /\ DrainIdle

\* One thinking parser under every sequence of Feed and Finalize calls
SpecThinking == ThinkStart /\ [][ThinkNext]_vars

AnthStart ==
    ShaperIdle /\ AuthIdle /\ ReadIdle /\ RetryInit /\ ParserInit /\ StreamIdle /\ ThinkIdle /\ AnthInit /\ MwIdle /\ NormIdle /\ ResolverIdle /\ FirstIdle /\ CancelIdle /\ ToolIdle /\ DedupIdle /\ BytesIdle /\ DrainIdle

\* One /v1/messages stream: the handler on every sequence of events
SpecAnth == AnthStart /\ [][AnthNext]_vars

MwStart ==
    ShaperIdle /\ AuthIdle /\ ReadIdle /\ RetryInit /\ ParserInit /\ StreamIdle /\ ThinkIdle /\ AnthIdle /\ MwInit /\ NormIdle /\ ResolverIdle /\ FirstIdle /\ CancelIdle /\ ToolIdle /\ DedupIdle /\ BytesIdle /\ DrainIdle

\* One request with every header against every route
SpecMw == MwStart /\ [][MwNext]_vars

NormStart ==
    ShaperIdle /\ AuthIdle /\ ReadIdle /\ RetryInit /\ ParserInit /\ StreamIdle /\ ThinkIdle /\ AnthIdle /\ MwIdle /\ NormInit /\ ResolverIdle /\ FirstIdle /\ CancelIdle /\ ToolIdle /\ DedupIdle /\ BytesIdle /\ DrainIdle

\* NormalizeModelName on every bounded name
SpecNorm == NormStart /\ [][NormNext]_vars

ResolverStart ==
    ShaperIdle /\ AuthIdle /\ ReadIdle /\ RetryInit /\ ParserInit /\ StreamIdle /\ ThinkIdle /\ AnthIdle /\ MwIdle /\ NormIdle /\ ResolverInit /\ FirstIdle /\ CancelIdle /\ ToolIdle /\ DedupIdle /\ BytesIdle /\ DrainIdle

\* Resolve and GetAvailableModels on every bounded resolver
SpecResolver == ResolverStart /\ [][ResolverNext]_vars

FirstStart ==
    ShaperIdle /\ AuthIdle /\ ReadIdle /\ RetryInit /\ ParserInit /\ StreamIdle /\ ThinkIdle /\ AnthIdle /\ MwIdle /\ NormIdle /\ ResolverIdle /\ FirstInit /\ CancelIdle /\ ToolIdle /\ DedupIdle /\ BytesIdle /\ DrainIdle

\* The first read of a streamed response, for every upstream plan
SpecFirst == FirstStart /\ [][FirstNext]_vars

CancelStart ==
    ShaperIdle /\ AuthIdle /\ ReadIdle /\ RetryInit /\ ParserInit /\ StreamIdle /\ ThinkIdle /\ AnthIdle /\ MwIdle /\ NormIdle /\ ResolverIdle /\ FirstIdle /\ CancelInit /\ ToolIdle /\ DedupIdle /\ BytesIdle /\ DrainIdle

\* A streamed response whose client may cancel at any moment
SpecCancel == CancelStart /\ [][CancelNext]_vars

ToolStart ==
    ShaperIdle /\ AuthIdle /\ ReadIdle /\ RetryInit /\ ParserInit /\ StreamIdle /\ ThinkIdle /\ AnthIdle /\ MwIdle /\ NormIdle /\ ResolverIdle /\ FirstIdle /\ CancelIdle /\ ToolInit /\ DedupIdle /\ BytesIdle /\ DrainIdle

\* A name event, input events and a stop event given to a new parser
SpecTool == ToolStart /\ [][ToolNext]_vars

DedupStart ==
    ShaperIdle /\ AuthIdle /\ ReadIdle /\ RetryInit /\ ParserInit /\ StreamIdle /\ ThinkIdle /\ AnthIdle /\ MwIdle /\ NormIdle /\ ResolverIdle /\ FirstIdle /\ CancelIdle /\ ToolIdle /\ DedupInit /\ BytesIdle /\ DrainIdle

\* DeduplicateToolCalls on every bounded list of tool calls
SpecDedup == DedupStart /\ [][DedupNext]_vars

BytesStart ==
    ShaperIdle /\ AuthIdle /\ ReadIdle /\ RetryInit /\ ParserInit /\ StreamIdle /\ ThinkIdle /\ AnthIdle /\ MwIdle /\ NormIdle /\ ResolverIdle /\ FirstIdle /\ CancelIdle /\ ToolIdle /\ DedupIdle /\ BytesInit /\ DrainIdle

\* Every bounded byte stream fed to Feed in every chunking
SpecBytes == BytesStart /\ [][BytesNext]_vars

DrainStart ==
    ShaperIdle /\ AuthIdle /\ ReadIdle /\ RetryInit /\ ParserInit /\ StreamIdle /\ ThinkIdle /\ AnthIdle /\ MwIdle /\ NormIdle /\ ResolverIdle /\ FirstIdle /\ CancelIdle /\ ToolIdle /\ DedupIdle /\ BytesIdle /\ DrainInit

\* One streamed response from the first read to the return of every loop
SpecDrain == DrainStart /\ [][DrainNext]_vars

\* The same under the scheduling of goroutines and the fairness of select
SpecDrainFair == DrainStart /\ [][DrainNext]_vars /\ DrainFairness

\* C1: for a non-empty input, the list after the four repair stages is
\* non-empty, starts with a user message, carries only the roles user and
\* assistant, and no two adjacent messages share a role.
C1_ShapedInvariant ==
    (shStage \in {"build", "done"} /\ Len(shInput.msgs) >= 1) =>
        /\ Len(messages) >= 1
        /\ messages[1].role = "user"
        /\ \A i \in 1..Len(messages) : messages[i].role \in {"user", "assistant"}
        /\ \A i \in 1..(Len(messages) - 1) : messages[i].role # messages[i+1].role

\* A [tool, system, assistant] input: a prepended user, two normalized roles
\* and an inserted assistant all occur
C1_Witness ==
    /\ shStage = "done"
    /\ Len(shInput.msgs) = 3
    /\ shInput.msgs[1].role = "tool" /\ shInput.msgs[2].role = "system"
    /\ shInput.msgs[3].role = "assistant"
    /\ Len(messages) = 6

(***************************************************************************)
(* Claims about the event-stream parser (SpecParser)                       *)
(***************************************************************************)

ContentEvents(evs) == SelectSeq(evs, LAMBDA e : e.type = "content")

\* C2: in the sequence of content events the Feed calls of one parser
\* return, no two successive content events carry equal text, whatever
\* objects arrive between them.
C2_NoRepeatedContent ==
    LET c == ContentEvents(emitted) IN
    \A i \in 1..(Len(c) - 1) : c[i].text # c[i + 1].text

\* A repeat of "w" was dropped after a usage event came between, and the
\* next different text was emitted
C2_Witness ==
    /\ psr.deduped = 1
    /\ emitted = <<[type |-> "content", text |-> <<"w">>],
                   [type |-> "usage", text |-> <<>>],
                   [type |-> "content", text |-> <<>>]>>

\* C3: every finalized tool call has arguments that parse as JSON: "{}" when
\* the accumulated string was empty or did not parse, its re-serialized
\* form when it did.
C3_FinalizedArgumentsAreJSON ==
    /\ Len(psr.rawArgs) = Len(psr.toolCalls)
    /\ \A i \in 1..Len(psr.toolCalls) :
        LET args == psr.toolCalls[i].arguments
            raw == psr.rawArgs[i]
        IN /\ ValidJSON(args)
           /\ args = IF raw = <<>> \/ ~ValidJSON(raw) THEN EmptyObject
                      ELSE MarshalKeys(JSONKeys(raw))

\* A call cut short by the next name event gets "{}"; the next one, built
\* from three fragments, is re-serialized with its keys in order
C3_Witness ==
    /\ Len(psr.toolCalls) = 2
    /\ psr.rawArgs[1] = <<"{", "b">>
    /\ psr.toolCalls[1].arguments = EmptyObject
    /\ psr.rawArgs[2] = <<"{", "b", ",", "a", "}">>
    /\ psr.toolCalls[2].arguments = <<"{", "a", ",", "b", "}">>

(***************************************************************************)
(* Claims about the streaming pipeline (SpecStream)                        *)
(***************************************************************************)

IsPrefix(s, t) == Len(s) <= Len(t) /\ s = SubSeq(t, 1, Len(s))

\* The chunks StreamToOpenAI makes of a sequence of events, in their order
RECURSIVE ChunksOf(_, _, _, _)
ChunksOf(evs, config, chunkIndex, toolCallIndex) ==
    IF evs = <<>> THEN <<>>
    ELSE LET c == OpenAIChunk(Head(evs), config, chunkIndex + 1, toolCallIndex) IN
         (IF c = NoFrame THEN <<>> ELSE <<c>>)
            \o ChunksOf(Tail(evs), config, chunkIndex + 1,
                        IF Head(evs).Type = "tool_use" THEN toolCallIndex + 1
                        ELSE toolCallIndex)

\* C4: on the OpenAI streaming endpoint, with no read error, the frames
\* written are at every moment a prefix of: the chunks of the events in the
\* order they were produced, one finish chunk, "data: [DONE]"; and when the
\* handler returns they are exactly that.
C4_OpenAIFrameOrder ==
    (cons.kind = "openai" /\ readErr = "none") =>
        LET expected == ChunksOf(sent, cfg, 0, 0)
                            \o <<FinishChunk(Len(sent)), DoneFrame>>
        IN /\ IsPrefix(frames, expected)
           /\ spc = "done" => frames = expected

\* A stream of three chunks (reasoning, content, tool call) that ended with
\* the finish chunk and [DONE]
C4_Witness ==
    /\ cons.kind = "openai"
    /\ readErr = "none"
    /\ spc = "done"
    /\ Len(frames) = 5
    /\ frames[1].kind = "reasoning"
    /\ frames[2].kind = "content"
    /\ frames[3].kind = "tool_call"
    /\ frames[4].kind = "finish"
    /\ frames[5].kind = "done"

\* C5 as stated: when a read of the body fails after the first chunk, the
\* client output holds an error frame and no finish chunk, and
\* CollectStreamResult returns the error, in every interleaving.
C5_ReadErrorSurfaces ==
    (readErr = "read" /\ spc = "done") =>
        IF cons.kind = "openai"
        THEN /\ \E i \in 1..Len(frames) : frames[i].kind = "error"
             /\ \A i \in 1..Len(frames) : frames[i].kind # "finish"
        ELSE cons.ret = "error"

(***************************************************************************)
(* Claims about the HTTP executor and the token manager (SpecRetry)        *)
(***************************************************************************)

\* C6: at-most-once emission. Once the handler has begun the SSE answer or
\* written any frame to the client, no step issues a further upstream
\* request for that client request.
C6_AtMostOnceEmission ==
    [][(framesWritten > 0 \/ client.type = "sse") => reqCount' = reqCount]_vars

\* A request that was retried once, then answered 200 and streamed to the end
C6_Witness ==
    /\ hpc = "done"
    /\ client.type = "sse"
    /\ framesWritten = MaxFrames + 1
    /\ reqCount = 2

RetryableStatus(status) == status \in {403, 429} \/ status >= 500

\* C7: RequestWithRetry makes at most MaxRetries attempts and sends at most
\* MaxRetries upstream requests; when it returns a response, that response
\* is the last one received and its status is not 403, 429 or >= 500; and
\* after an answer with such a status no further upstream request is sent
\* (so the returned response is the first of its kind).
C7_BoundedAttemptsFirstFinal ==
    /\ [](/\ attempt <= MaxRetries
          /\ reqCount <= MaxRetries
          /\ rpc = "returned" =>
                /\ ~RetryableStatus(resp.status)
                /\ resp = [status |-> prevStatus, body |-> BodyOf(reqCount)])
    /\ [][(prevStatus # 0 /\ ~RetryableStatus(prevStatus)) => reqCount' = reqCount]_vars

\* The third attempt is the first one with a non-retryable status
C7_Witness ==
    /\ rpc = "returned"
    /\ attempt = MaxRetries - 1
    /\ reqCount = MaxRetries
    /\ resp.status = 400

C9_ErrorCarriesLastBody ==
    (hpc = "done" /\ allStatus /\ reqCount = MaxRetries) =>
        /\ client.type = "internal_error"
        /\ \E i \in 1..Len(client.message) : client.message[i] = BodyOf(reqCount)

\* GetAccessToken has sent a refresh request only with the access token
\* absent or inside the refresh threshold
C10_RefreshOnlyWhenStale ==
    \A p \in Callers :
        (acall[p].op = "get" /\ acall[p].pc = "await") =>
            (m.accessToken = Empty \/ IsTokenExpiringSoon(m, now))

\* A valid token is returned as it is, and the check changes nothing
C10_ValidReturnedUnchanged ==
    \A p \in Callers :
        (acall[p].pc = "check" /\ m.accessToken # Empty /\ ~IsTokenExpiringSoon(m, now)) =>
            (acall'[p].pc = "check" \/
                /\ acall'[p].tok = m.accessToken
                /\ acall'[p].path = "valid"
                /\ <<m, store, issued>>' = <<m, store, issued>>)

\* In SQLite mode the store has been re-read before GetAccessToken sends a
\* refresh request, and a valid re-read token is returned without one
C10_RereadBeforeRefresh ==
    \A p \in Callers :
        (m.sqliteDB /\ acall[p].op = "get") =>
            /\ acall[p].pc = "await" => acall[p].path = "reread"
            /\ acall[p].path = "reread" /\ acall[p].pc \in {"unlock", "done"} =>
                    acall[p].tok = m.accessToken

\* C10 as stated: GetAccessToken contacts the refresh endpoint only with the
\* token absent or inside the threshold; a valid token is returned with no
\* state change; in SQLite mode the store is re-read before any refresh call
\* and a valid re-read token is returned with no refresh call.
C10_RefreshDiscipline ==
    /\ []C10_RefreshOnlyWhenStale
    /\ [][C10_ValidReturnedUnchanged]_vars
    /\ []C10_RereadBeforeRefresh


(***************************************************************************)
(* Claims about the token manager under concurrency (SpecAuth, SpecRead)   *)
(***************************************************************************)

\* The step in which p's refreshTokenRequest() returns an error
RefreshFails(p) ==
    /\ acall[p].pc \in {"refresh", "await"}
    /\ acall'[p].pc = "unlock"
    /\ issued' = issued

\* The step in which p's refreshTokenRequest() returns nil
RefreshSucceeds(p) ==
    /\ acall[p].pc = "await"
    /\ acall'[p].pc = "unlock"
    /\ issued' = issued + 1

\* C11: when the refresh made by GetAccessToken fails, the call returns the
\* existing token and no error exactly when the source is the KV store, a
\* token is present and the clock has not passed expiresAt; otherwise it
\* returns an error and no token.
C11_DegradeOnlyFromKVStore ==
    [][\A p \in Callers :
        (acall[p].op = "get" /\ RefreshFails(p)) =>
            IF m.sqliteDB /\ m.accessToken # Empty /\ now <= m.expiresAt
            THEN acall'[p].tok = m.accessToken /\ acall'[p].err = "nil"
            ELSE acall'[p].tok = Empty /\ acall'[p].err # "nil"]_vars

\* A GetAccessToken call in KV-store mode whose refresh failed and which
\* returns the token that is near its expiry
C11_Witness ==
    \E p \in Goroutines :
        /\ acall[p].op = "get"
        /\ acall[p].pc = "unlock"
        /\ acall[p].path = "degraded"
        /\ m.sqliteDB
        /\ acall[p].tok = m.accessToken
        /\ acall[p].tok # Empty
        /\ IsTokenExpiringSoon(m, now)
        /\ now <= m.expiresAt

\* C12 as stated: the credential source is written by the manager only in a
\* successful refresh, every successful refresh writes it (afterwards it holds
\* the manager's tokens and expiry), and a failed refresh changes neither the
\* manager's fields nor the source.
C12_WrittenOnSuccessOnly ==
    [][/\ store' # store =>
            \/ extWrites' # extWrites
            \/ \E p \in Callers : RefreshSucceeds(p)
       /\ \A p \in Callers :
            /\ RefreshSucceeds(p) =>
                /\ store'.accessToken = m'.accessToken
                /\ store'.refreshToken = m'.refreshToken
                /\ store'.expiresAt = m'.expiresAt
            /\ RefreshFails(p) => (m' = m /\ store' = store)]_vars

\* Inside the critical section of GetAccessToken / ForceRefresh
InCriticalSection(p) == acall[p].pc \in {"check", "reload", "refresh", "await", "unlock"}

\* C13: with concurrent GetAccessToken and ForceRefresh callers, only the
\* holder of the lock is inside the check / refresh / return sequence, at most
\* one refresh request is in flight, a caller that arrives while the lock is
\* held does not move until it is released, and the manager's fields change
\* only in steps of the lock's holder (so the next holder sees the token and
\* the expiry of a refresh together).
C13_RefreshSerialized ==
    /\ [](\A p \in Callers : InCriticalSection(p) => mu = p)
    /\ [](Cardinality({p \in Callers : acall[p].pc = "await"}) <= 1)
    /\ [][\A p \in Callers :
            /\ (acall[p].pc = "lock" /\ mu # "free") => acall'[p] = acall[p]
            /\ (acall[p].pc = "lock" /\ acall'[p].pc # "lock") => m' = m
            /\ (m' # m /\ acall'[p] # acall[p]) => mu = p]_vars

\* One goroutine waits for its answer from the refresh endpoint while the
\* other, arrived in the meantime, waits for the lock
C13_Witness ==
    /\ acall["c1"].pc = "await"
    /\ mu = "c1"
    /\ acall["c2"].pc = "lock"
    /\ acall["c2"].op = "get"

\* C14 as stated: every read of the manager's credential fields by request
\* code happens while the reader holds the manager's lock.
C14_ReadsHoldLock ==
    arnRead.by # "none" => arnRead.holder = arnRead.by


(***************************************************************************)
(* Further claims about the streaming pipeline (SpecStream)                *)
(***************************************************************************)

\* The producer goroutine has run to its end over a body that ended in EOF
ProducerFinished == ppc = "done" /\ readErr = "none" /\ body = "eof"

\* C15 as stated: reasoning enabled with handling as_reasoning_content, and
\* the upstream sends one content object "<thinking>w</thinking>a": the
\* pipeline sends a thinking event with "w" and then a content event with
\* "a", and the OpenAI framer a reasoning chunk followed by a content chunk.
C15_ThinkingThenAnswer ==
    (/\ cfg.FakeReasoningEnabled
     /\ cfg.FakeReasoningHandling = "as_reasoning_content"
     /\ produced = 1
     /\ emitted = <<[type |-> "content", text |-> <<OpenTag, "w", CloseTag, "a">>]>>
     /\ ProducerFinished) =>
        /\ Len(sent) = 2
        /\ sent[1].Type = "thinking" /\ sent[1].ThinkingContent = <<"w">>
        /\ sent[2].Type = "content" /\ sent[2].Content = <<"a">>
        /\ (cons.kind = "openai" /\ spc = "done") =>
                /\ Len(frames) = 4
                /\ frames[1].kind = "reasoning" /\ frames[1].text = <<"w">>
                /\ frames[2].kind = "content" /\ frames[2].text = <<"a">>

\* The configuration config.go sets by default
DefaultConfig ==
    [FakeReasoningEnabled |-> TRUE, FakeReasoningHandling |-> "as_reasoning_content"]

\* C16 as stated: under the default configuration, when the upstream's objects
\* are distinct content objects without thinking tags, the frames written are
\* one content frame per object, in order and with that object's text, then
\* the finish chunk and "data: [DONE]".
C16_OneFramePerContentObject ==
    (/\ cfg = DefaultConfig
     /\ cons.kind = "openai"
     /\ Len(emitted) = produced
     /\ \A i \in 1..Len(emitted) :
            emitted[i].type = "content" /\ emitted[i].text \in {<<"w">>, <<"a">>}
     /\ ProducerFinished
     /\ spc = "done") =>
        /\ Len(frames) = Len(emitted) + 2
        /\ \A i \in 1..Len(emitted) :
            frames[i].kind = "content" /\ frames[i].text = emitted[i].text
        /\ frames[Len(frames) - 1].kind = "finish"
        /\ frames[Len(frames)].kind = "done"

\* C17 as stated: the finish reason given to an OpenAI client, in the last
\* streaming chunk and in the non-streaming response, is "tool_calls" when a
\* tool call was emitted in the run and "stop" otherwise.
C17_FinishReasonToolCalls ==
    spc = "done" =>
        \A i \in 1..Len(frames) :
            /\ frames[i].kind = "finish" =>
                frames[i].finishReason =
                    IF \E j \in 1..Len(frames) : frames[j].kind = "tool_call"
                    THEN "tool_calls" ELSE "stop"
            /\ frames[i].kind = "completion" =>
                frames[i].finishReason =
                    IF cons.ToolCalls # <<>> THEN "tool_calls" ELSE "stop"


\* The tool_use events sent so far
ToolUsesSent == Cardinality({i \in 1..Len(sent) : sent[i].Type = "tool_use"})

\* C18 as stated (its part on order): the events reach the framer in the
\* order of arrival, so a tool call is not delivered after content that
\* arrived later than it. A read of the body that yields content or thinking
\* events while a call the parser has already finalized has not been sent
\* queues those events ahead of the call.
C18_ArrivalOrder ==
    [][(/\ ppc \in {"first", "read"}
        /\ ppc' = "push"
        /\ Len(psr.toolCalls) > ToolUsesSent) =>
            \A i \in 1..Len(pending') : pending'[i].Type \notin {"content", "thinking"}]_vars


\* The symbols Feed has taken out of the buffer in this step: the buffer
\* and the bytes read, less what the buffer still holds
ParsedInStep ==
    LET all == psr.buffer \o SubSeq(wire, 1, Len(wire) - Len(wire'))
    IN SubSeq(all, 1, Len(all) - Len(psr'.buffer))

\* The finalizations an object stands for: a name event ends the call before
\* it (and itself when it carries stop), a stop sentinel ends the current call
Finalizations(sym) ==
    IF sym.k # "head" THEN 0
    ELSE IF sym.o.type = "tool_start"
         THEN (IF sym.o.stop /\ ~sym.o.bad THEN 2 ELSE 1)
    ELSE IF sym.o.type = "tool_stop" /\ sym.o.stop /\ ~sym.o.bad THEN 1
    ELSE 0

RECURSIVE FinalizationsIn(_)
FinalizationsIn(syms) ==
    IF syms = <<>> THEN 0 ELSE Finalizations(Head(syms)) + FinalizationsIn(Tail(syms))

\* The calls appended to the collected list in this step
NewToolCalls == Len(psr'.toolCalls) - Len(psr.toolCalls)

\* C19, amended: a tool call is appended to the collected list only when its
\* own stop sentinel or the name event of the following call has been parsed,
\* or when GetToolCalls is called on the parser, which finalizes the call in
\* progress; no other parsed object (content, usage, an input fragment) makes
\* a call visible, and each stop sentinel or name event ends one call.
C19_FinalizedOnStopNextOrEnd ==
    [][NewToolCalls > 0 =>
          IF wire' = wire
          THEN NewToolCalls = 1 /\ psr.currentToolCall.set /\ ~psr'.currentToolCall.set
          ELSE NewToolCalls <= FinalizationsIn(ParsedInStep)]_vars

\* A call is collected and the next one is in progress with input fragments
\* accumulated, not yet visible
C19_Witness ==
    /\ Len(psr.toolCalls) = 1
    /\ psr.currentToolCall.set
    /\ psr.currentToolCall.arguments # <<>>
    /\ psr.buffer = <<>>

\* C19 as stated: a call becomes visible only after its own stop sentinel or
\* the name event of the following call has been parsed
C19_OnlyAfterStopOrNextName ==
    [][NewToolCalls > 0 => NewToolCalls <= FinalizationsIn(ParsedInStep)]_vars


\* C20: once the thinking parser has processed the close tag of its block,
\* every later Feed(c) returns c as RegularContent, no ThinkingContent and no
\* first/last flag, whatever tags c holds, and leaves the parser as it is;
\* the parser stays ended and never goes back inside a thinking block, and
\* each content object read after that is sent on with exactly its text.
C20_PassThroughAfterClose ==
    /\ [](thk.on /\ thk.thinkingEnded =>
            \A c \in StreamTexts :
                ThinkingFeed(thk, c) =
                    [tp |-> thk, result |-> [NoResult EXCEPT !.RegularContent = c]])
    /\ [][thk.on /\ thk.thinkingEnded =>
            /\ thk'.thinkingEnded
            /\ ~thk'.inThinking
            /\ thk'.thinkingContent = thk.thinkingContent
            /\ (emitted' # emitted =>
                    LET read == ContentEvents(SubSeq(emitted', Len(emitted) + 1,
                                                     Len(emitted')))
                        out == SelectSeq(pending', LAMBDA e : e.Type = "content")
                    IN /\ out = [i \in 1..Len(read) |->
                                    KiroEvent("content", read[i].text, <<>>,
                                              NoToolUse, FALSE, FALSE)]
                       /\ \A i \in 1..Len(pending') : pending'[i].Type # "thinking")]_vars

\* The block was closed and a later content object that opens a tag again
\* was sent on as content, tag included
C20_Witness ==
    /\ thk.on
    /\ thk.thinkingEnded
    /\ \E i, j \in 1..Len(sent) :
        /\ i < j
        /\ sent[i].Type = "thinking"
        /\ sent[i].IsLastThinkingChunk
        /\ sent[j].Type = "content"
        /\ sent[j].Content = <<OpenTag, "w">>

(***************************************************************************)
(* Claims about the thinking parser (SpecThinking)                         *)
(***************************************************************************)

\* C21 as stated: once a Feed has found the buffer at the threshold with no
\* open tag and returned it as regular content, the parser is done: every
\* later Feed returns its chunk unchanged as regular content, with no
\* thinking content and no flag, and the parser never goes inside a
\* thinking block.
C21_DoneAfterNoTag ==
    [][(tk.flushed /\ tk'.op = "feed" /\ tk'.feeds = tk.feeds + 1) =>
          /\ tk'.result = [NoResult EXCEPT !.RegularContent = tk'.content]
          /\ ~tk'.tp.inThinking]_vars

\* This step is a call on the parser
ThinkCallStep == tk'.feeds + tk'.finals = tk.feeds + tk.finals + 1

NoThinkingOutput(result) ==
    /\ result.ThinkingContent = <<>>
    /\ ~result.IsFirstThinkingChunk
    /\ ~result.IsLastThinkingChunk

\* Finalize on a parser that is buffering with no tag decision returns the
\* buffer as regular content and empties it
FinalizeFlushesBuffer ==
    (tk'.op = "finalize" /\ tk.tp.buffer # <<>> /\ ~tk.tp.foundThinking) =>
        /\ tk'.result = [NoResult EXCEPT !.RegularContent = tk.tp.buffer]
        /\ tk'.tp.buffer = <<>>

\* Finalize inside an unclosed block returns the accumulated thinking marked
\* last (shaped by the handling mode) and ends the block
FinalizeClosesBlock ==
    (tk'.op = "finalize" /\ tk.tp.inThinking) =>
        /\ tk'.result.IsLastThinkingChunk
        /\ tk'.result.RegularContent = <<>>
        /\ tk'.result.ThinkingContent =
              CASE tk.tp.handlingMode = "remove" -> <<>>
                [] tk.tp.handlingMode = "pass" ->
                      (IF tk.tp.firstThinkingSent THEN <<>> ELSE <<OpenTag>>)
                          \o tk.tp.thinkingContent \o <<CloseTag>>
                [] OTHER -> tk.tp.thinkingContent
        /\ tk'.tp.thinkingEnded
        /\ ~tk'.tp.inThinking

\* The part of C22 that holds: the two cases of Finalize; once a block has
\* ended (by Finalize or by its close tag) no later Finalize or Feed produces
\* thinking output; a Finalize right after a Finalize returns nothing.
C22_FinalizeFlushesOrCloses ==
    [][ThinkCallStep =>
          /\ FinalizeFlushesBuffer
          /\ FinalizeClosesBlock
          /\ (tk.tp.thinkingEnded =>
                NoThinkingOutput(tk'.result) /\ tk'.tp.thinkingEnded /\ ~tk'.tp.inThinking)
          /\ (tk.op = "finalize" /\ tk'.op = "finalize" => tk'.result = NoResult)]_vars

\* C22 as stated: the same two cases, and after a Finalize neither a second
\* Finalize nor any later Feed produces thinking output
C22_NoThinkingAfterFinalize ==
    [][ThinkCallStep =>
          /\ FinalizeFlushesBuffer
          /\ FinalizeClosesBlock
          /\ (tk.finals >= 1 => NoThinkingOutput(tk'.result))]_vars

(***************************************************************************)
(* Claims about the Anthropic streaming handler (SpecAnth)                 *)
(***************************************************************************)

\* How many of the events written are of one type
CountOf(out, event) == Cardinality({i \in 1..Len(out) : out[i].event = event})

\* The content_block_start events among the first k whose block has not been
\* stopped within the first k
OpenAfter(out, k) ==
    {i \in 1..k :
        /\ out[i].event = "content_block_start"
        /\ ~\E j \in (i + 1)..k :
              out[j].event = "content_block_stop" /\ out[j].index = out[i].index}

\* C23: on the streaming path message_start is the first event and is
\* written once; when the events channel closes, every block still open is
\* stopped, then one message_delta with stop_reason end_turn is written, then
\* message_stop as the last event; no content_block event follows
\* message_delta, and none is written before the channel closes.
C23_MessageEnvelope ==
    LET out == an.out
        n == Len(out)
    IN /\ (an.pc # "start" /\ an.end # "refused") =>
            /\ out[1].event = "message_start"
            /\ CountOf(out, "message_start") = 1
       /\ an.end # "closed" =>
            CountOf(out, "message_delta") = 0 /\ CountOf(out, "message_stop") = 0
       /\ an.end = "closed" =>
            /\ out[n].event = "message_stop"
            /\ out[n - 1] = SseEvent("message_delta", -1, "end_turn", <<>>)
            /\ CountOf(out, "message_delta") = 1
            /\ CountOf(out, "message_stop") = 1
            /\ OpenAfter(out, n - 2) = {}
            /\ \A i \in 1..n :
                  out[i].event = "content_block_start" =>
                      Cardinality({j \in 1..n : /\ out[j].event = "content_block_stop"
                                                /\ out[j].index = out[i].index}) = 1

\* The channel closed with a thinking block and a text block open: both were
\* stopped before message_delta
C23_Witness ==
    /\ an.end = "closed"
    /\ an.thinkingBlockStarted
    /\ an.textBlockStarted
    /\ Len(an.out) >= 5
    /\ an.out[Len(an.out) - 2].event = "content_block_stop"
    /\ an.out[Len(an.out) - 3].event = "content_block_stop"

\* C24: block indices are assigned 0, 1, 2, ... in the order of
\* content_block_start, so none is started twice; every content_block_delta
\* and content_block_stop carries the index of a block started and not yet
\* stopped; at most one text block and one thinking block are open at any
\* point of the output; after a tool_use event no block is open.
C24_BlockIndices ==
    LET out == an.out IN
    /\ \A k \in 1..Len(out) :
        /\ out[k].event = "content_block_start" =>
              out[k].index = Cardinality({i \in 1..(k - 1) :
                                             out[i].event = "content_block_start"})
        /\ out[k].event \in {"content_block_delta", "content_block_stop"} =>
              \E i \in OpenAfter(out, k - 1) : out[i].index = out[k].index
        /\ Cardinality({i \in OpenAfter(out, k) : out[i].kind = "text"}) <= 1
        /\ Cardinality({i \in OpenAfter(out, k) : out[i].kind = "thinking"}) <= 1
    /\ an.lastType = "tool_use" => OpenAfter(out, Len(out)) = {}

\* A text block and a thinking block were open together, a tool call closed
\* both, and a new text block was started after it
C24_Witness ==
    /\ an.contentIndex = 4
    /\ an.textBlockStarted
    /\ an.textBlockIndex = 3
    /\ \E i \in 1..Len(an.out) : an.out[i] = BlockStart(2, "tool_use")
    /\ \E i \in 1..Len(an.out) : an.out[i].event = "content_block_start"
                                  /\ an.out[i].kind = "thinking"

(***************************************************************************)
(* Claims about the router (SpecMw)                                        *)
(***************************************************************************)

C26_FamilyPreserved ==
    (nm.calls >= 1 /\ nm.once # nm.name) =>
        ExtractModelFamily(nm.once) = ExtractModelFamily(nm.name)

\* An inverted name whose suffix holds another family name was rewritten
C26_Witness ==
    /\ nm.calls >= 1
    /\ nm.name = <<"claude", "4.4", "haiku", "opusx">>
    /\ nm.once = <<"claude", "haiku", "4.4">>

\* C27 as stated: NormalizeModelName applied to its own result returns the
\* result unchanged.
C27_Idempotent == nm.calls = 2 => nm.twice = nm.once

(***************************************************************************)
(* Claims about the resolver (SpecResolver)                                *)
(***************************************************************************)

\* The values of a table
ValuesOf(table) == {table[k] : k \in DOMAIN table}

\* C25: Resolve(x) normalizes the alias target of x when x is an alias and x
\* itself otherwise; the normalized name n resolves to (n, cache, verified)
\* when n is in the cache, else to (hidden[n], hidden, verified) when n is a
\* hidden display name, else to (n, passthrough, unverified). A result from
\* the cache has an id of the cache, a result from the hidden table has an
\* id that is a value of that table, and OriginalRequest is x.
C25_ResolveLayers ==
    rv.op = "resolve" =>
        LET x == rv.res.OriginalRequest
            n == IF x \in DOMAIN rv.aliases THEN NormalizeModelName(rv.aliases[x])
                 ELSE NormalizeModelName(x)
            got == <<rv.res.InternalID, rv.res.Source, rv.res.IsVerified>>
        IN /\ x \in SetOfNames
           /\ n \in rv.cache => got = <<n, "cache", TRUE>>
           /\ n \notin rv.cache /\ n \in DOMAIN rv.hiddenModels =>
                  got = <<rv.hiddenModels[n], "hidden", TRUE>>
           /\ n \notin rv.cache /\ n \notin DOMAIN rv.hiddenModels =>
                  got = <<n, "passthrough", FALSE>>
           /\ rv.res.Source = "cache" => rv.res.InternalID \in rv.cache
           /\ rv.res.Source = "hidden" => rv.res.InternalID \in ValuesOf(rv.hiddenModels)

\* An alias of a dated name was resolved from the cache under the
\* normalized name
C25_Witness ==
    /\ rv.op = "resolve"
    /\ rv.res.OriginalRequest = <<"auto", "kiro">>
    /\ rv.res.OriginalRequest \in DOMAIN rv.aliases
    /\ rv.res.Normalized # rv.aliases[rv.res.OriginalRequest]
    /\ rv.res.Source = "cache"

\* C28 as stated: GetAvailableModels returns, sorted and without duplicates,
\* the cache ids, hidden display names and alias names that are not in
\* hiddenFromList.
C28_ListMinusHidden ==
    rv.op = "list" =>
        /\ rv.models = SortStrings((rv.cache \cup DOMAIN rv.hiddenModels \cup DOMAIN rv.aliases)
                                     \ rv.hiddenFromList)
        /\ \A i \in DOMAIN rv.models : rv.models[i] \notin rv.hiddenFromList
        /\ \A i, j \in DOMAIN rv.models : i # j => rv.models[i] # rv.models[j]

(***************************************************************************)
(* Claims about the first-token timeout (SpecFirst)                        *)
(***************************************************************************)

\* C30 as stated: the wait for the first byte lasts no longer than the
\* first-token timeout; when no byte came in that time the read has failed
\* with FirstTokenTimeoutError and the upstream request was made again.
C30_FirstTokenTimeout ==
    ft.waited > FirstTokenTimeout =>
        /\ ft.pc # "reading"
        /\ ft.err = "FirstTokenTimeoutError"
        /\ ft.requests > 1

(***************************************************************************)
(* Claims about cancellation (SpecCancel)                                  *)
(***************************************************************************)

\* C31 as stated: once the client has cancelled, the upstream read is
\* aborted and the producer stops: beyond one read that was under way it
\* reads no further chunk, and it does not go on reading while the client is
\* gone.
C31_CancelStopsProducer ==
    cn.clientGone => cn.readsAfterCancel <= 1

(***************************************************************************)
(* Claims about the handler's answer when no token is obtained (SpecRetry) *)
(***************************************************************************)

\* C32 as stated: when the handler is done and no attempt obtained an
\* access token (every GetAccessToken failed, no request went upstream), the
\* client was answered with status 401.
C32_NoTokenIs401 ==
    (hpc = "done" /\ reqCount = 0) => client.status = 401

(***************************************************************************)
(* Claims about the events of one tool call (SpecTool)                     *)
(***************************************************************************)

\* The run is a name event, input events and the stop event
IsCallRun == tl.objs[1].type = "tool_start"

\* The name event's input and the input fragments, concatenated in order
RECURSIVE InputsText(_)
InputsText(objs) ==
    IF objs = <<>> THEN <<>>
    ELSE InputText(Head(objs).input) \o InputsText(Tail(objs))

\* The id, name and position of the one call of the run
OneCallOf(arguments) ==
    <<[id |-> IF tl.objs[1].id = "" THEN GenID(1) ELSE tl.objs[1].id,
       name |-> "f", arguments |-> arguments]>>

\* Input and stop events with no call in progress leave the parser's call
\* state as it was
OrphansChangeNothing ==
    ~IsCallRun => tl.p.toolCalls = <<>> /\ tl.p.currentToolCall = NoCall /\ tl.p.generated = 0

\* C33, amended: a name event, input events and the stop event yield exactly
\* one collected tool call with the id of the name event (generated only if
\* that is empty) and the given name; its arguments are the canonical JSON
\* of the concatenation of the name event's input and the input fragments in
\* arrival order when that concatenation parses as JSON, and "{}" when it is
\* empty or does not parse. Input and stop events with no call in progress
\* change nothing.
C33_OneCallPerNameInputsStop ==
    /\ (IsCallRun /\ tl.done = Len(tl.objs)) =>
          LET cat == InputsText(tl.objs)
              args == IF ValidJSON(cat) THEN MarshalKeys(JSONKeys(cat)) ELSE EmptyObject
          IN /\ tl.p.toolCalls = OneCallOf(args)
             /\ tl.p.currentToolCall = NoCall
             /\ tl.p.generated = IF tl.objs[1].id = "" THEN 1 ELSE 0
             /\ tl.collected \in {<<>>, tl.p.toolCalls}
    /\ OrphansChangeNothing

\* A call whose arguments came in three pieces, none of which parses alone,
\* was collected under the id of its name event
C33_Witness ==
    /\ IsCallRun
    /\ tl.objs[1].id = "tu1"
    /\ tl.objs[1].input = StrInput(<<"{", "b">>)
    /\ Len(tl.objs) = 4
    /\ tl.collected = OneCallOf(<<"{", "a", ",", "b", "}">>)

\* C33 as stated: the arguments of the collected call are the canonical JSON
\* of the concatenation, which therefore parses.
C33_ArgumentsAreConcatenation ==
    /\ (IsCallRun /\ tl.done = Len(tl.objs)) =>
          LET cat == InputsText(tl.objs)
          IN /\ ValidJSON(cat)
             /\ tl.p.toolCalls = OneCallOf(MarshalKeys(JSONKeys(cat)))
    /\ OrphansChangeNothing

(***************************************************************************)
(* Claims about DeduplicateToolCalls (SpecDedup)                           *)
(***************************************************************************)

\* The positions of the list that carry the id
IdGroup(id) == {i \in DOMAIN dd.toolCalls : dd.toolCalls[i].id = id}

\* The position chosen within an id group: among the entries whose arguments
\* are not "{}" the longest, the earliest of these; the first entry of the
\* group when all have "{}"
ChosenOf(id) ==
    LET filled == {i \in IdGroup(id) : dd.toolCalls[i].arguments # EmptyObject}
        len(i) == ArgLen(dd.toolCalls[i].arguments)
    IN IF filled = {}
       THEN CHOOSE i \in IdGroup(id) : \A j \in IdGroup(id) : i <= j
       ELSE CHOOSE i \in filled :
                \A j \in filled : len(j) < len(i) \/ (len(j) = len(i) /\ i <= j)

\* C34: for each non-empty id of the list given, the result holds at most
\* one entry with that id, and that entry is the one of its id group with
\* arguments other than "{}" of the greatest length, the earliest such on
\* ties, or the group's first entry when all its entries have "{}".
C34_OnePerID ==
    dd.called =>
        \A i \in DOMAIN dd.toolCalls :
            LET id == dd.toolCalls[i].id
                at == {k \in DOMAIN dd.result : dd.result[k].id = id}
            IN id # "" =>
                /\ Cardinality(at) <= 1
                /\ \A k \in at : dd.result[k] = dd.toolCalls[ChosenOf(id)]

\* Of three entries with one id, the second was kept: it ties with the third
\* in length, and the first has "{}"
C34_Witness ==
    /\ dd.called
    /\ Len(dd.toolCalls) = 3
    /\ \A i \in 1..3 : dd.toolCalls[i].id = "1"
    /\ dd.toolCalls[1].arguments = EmptyObject
    /\ dd.toolCalls[2].arguments = <<"{", "a", "}">>
    /\ dd.toolCalls[3].arguments = <<"{", "b", "}">>
    /\ dd.result = <<dd.toolCalls[2]>>

\* No non-empty id occurs twice in the list given
IdsDistinct ==
    \A i, j \in DOMAIN dd.toolCalls :
        (i # j /\ dd.toolCalls[i].id # "") => dd.toolCalls[i].id # dd.toolCalls[j].id

\* C35 as stated: among the entries of the list that have the same name and
\* arguments the one retained is the first of the list (lists without a
\* repeated id, so that no entry is dropped for its id).
C35_FirstOccurrenceKept ==
    (dd.called /\ IdsDistinct) =>
        \A k \in DOMAIN dd.result :
            \A i \in DOMAIN dd.toolCalls :
                (/\ dd.toolCalls[i].name = dd.result[k].name
                 /\ dd.toolCalls[i].arguments = dd.result[k].arguments
                 /\ \A j \in 1..(i - 1) :
                        \/ dd.toolCalls[j].name # dd.result[k].name
                        \/ dd.toolCalls[j].arguments # dd.result[k].arguments)
                => dd.result[k] = dd.toolCalls[i]

\* C36 as stated: entries with distinct non-empty ids are all retained,
\* whatever their names and arguments.
C36_DistinctIdsKept ==
    (dd.called /\ IdsDistinct) =>
        \A i \in DOMAIN dd.toolCalls :
            dd.toolCalls[i].id # "" =>
                \E k \in DOMAIN dd.result : dd.result[k] = dd.toolCalls[i]

(***************************************************************************)
(* Claims about chunk boundaries (SpecBytes)                               *)
(***************************************************************************)

C37_SplitWitness ==
    /\ by.stream = ContentQuote \o ContentW
    /\ by.fed = 7
    /\ by.p.buffer = SubSeq(ContentQuote, 1, 7)

(***************************************************************************)
(* Claims about conservation in the ThinkingParser (SpecThinking)          *)
(***************************************************************************)

\* The text between the first open tag and the close tag after it (to the
\* end when there is none)
TextInsideTags(s) ==
    LET o == IndexOf(s, OpenTag)
        rest == SubSeq(s, o + 1, Len(s))
        c == IndexOf(rest, CloseTag)
    IN IF o = 0 THEN <<>>
       ELSE IF c = 0 THEN rest ELSE SubSeq(rest, 1, c - 1)

\* The text before the open tag followed by the text after the close tag
\* (all of it when there is no open tag)
TextOutsideTags(s) ==
    LET o == IndexOf(s, OpenTag)
        rest == SubSeq(s, o + 1, Len(s))
        c == IndexOf(rest, CloseTag)
    IN IF o = 0 THEN s
       ELSE SubSeq(s, 1, o - 1) \o (IF c = 0 THEN <<>> ELSE SubSeq(rest, c + 1, Len(rest)))

\* C38 as stated: in mode as_reasoning_content, after the Feed calls and
\* Finalize, the ThinkingContent returned, concatenated, is the text between
\* the tags, and the RegularContent returned, concatenated, is the text
\* before the open tag followed by the text after the close tag.
C38_Conservation ==
    (/\ tk.tp.handlingMode = "as_reasoning_content"
     /\ tk.op = "finalize"
     /\ tk.finals = 1) =>
        /\ tk.thinking = TextInsideTags(tk.fed)
        /\ tk.regular = TextOutsideTags(tk.fed)

(***************************************************************************)
(* Claims about the expiry of a returned token (SpecAuth)                  *)
(***************************************************************************)

\* GetAccessToken of caller p reaches a return statement that returns a
\* token and no error
ReturnsToken(p) ==
    /\ acall[p].pc # "unlock"
    /\ acall'[p].pc = "unlock"
    /\ acall'[p].op = "get"
    /\ acall'[p].err = "nil"

\* C39, amended: a token returned on a path that tests the expiry (valid token,
\* KV re-read, degraded return) has a recorded expiresAt that has not passed;
\* a token returned after a successful refresh is returned untested with
\* expiresAt = now + expiresIn - 60 s, whatever expiresIn the endpoint sent.
C39_CheckedPathsNotExpired ==
    [][\A p \in Callers :
          ReturnsToken(p) =>
              IF acall'[p].path = "refreshed"
              THEN \E e \in ExpiresIns : m'.expiresAt = now' + e - ExpiryBuffer
              ELSE ~IsTokenExpired(m', now')]_vars

\* A degraded return happened: the refresh failed, the token held is near
\* its expiry and is returned without error
C39_Witness ==
    \E p \in Callers :
        /\ acall[p].pc = "unlock" /\ acall[p].op = "get" /\ acall[p].err = "nil"
        /\ acall[p].path = "degraded"
        /\ IsTokenExpiringSoon(m, now) /\ ~IsTokenExpired(m, now)

\* C39 as stated: whenever GetAccessToken returns a token without error, the
\* expiresAt the manager holds at that moment has not passed, on every path.
C39_ReturnedTokenNotExpired ==
    [][\A p \in Callers : ReturnsToken(p) => ~IsTokenExpired(m', now')]_vars

(***************************************************************************)
(* Claims about the end of a streamed response (SpecDrainFair)             *)
(***************************************************************************)

\* The producer has closed both channels and is gone, the consumer loop has
\* returned, the handler behind it has finished, and the terminal output
\* (finish or error chunk, message_stop or error event, result or error) is out
DrainDone ==
    /\ dr.ppc = "done" /\ dr.errsClosed /\ dr.eventsClosed
    /\ dr.cpc = "done"
    /\ dr.hpc \in {"none", "done"}
    /\ dr.terminal # "none"

\* C40: for a body that ends (EOF or read error) after finitely many chunks
\* and a client that keeps reading, the producer closes both channels and
\* terminates and the consumer loop emits its terminal output and returns:
\* no deadlock on the bounded channels, no endless spinning on closed errs.
C40_Terminates == <>DrainDone

\* A run in which the producer met a full events channel and the consumer
\* received nil from the closed errs channel, and which is over
C40_Witness ==
    /\ DrainDone
    /\ dr.blocked
    /\ dr.spun
    /\ dr.reads = MaxDrainChunks


=============================================================================
